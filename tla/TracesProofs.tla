----------------------------- MODULE TracesProofs -----------------------------
(***************************************************************************)
(* Proofs about LocalTraces, for every set of vaults and directories and   *)
(* any number of scanning threads, guarded by the flag or not, with files  *)
(* that come and go, stores that refuse, and restarts at any time.         *)
(***************************************************************************)
EXTENDS LocalTraces, TLAPS

Stages == {"rest", "walk", "read", "keep", "drop", "save", "dump", "posted", "failed"}

EntryRec == [stamp: Nat, old: BOOLEAN]

ScanRec ==
    [pc: Stages, dirs: SUBSET Dirs, left: SUBSET Vaults, seen: SUBSET Vaults,
     hits: SUBSET (Vaults \X Nat), at: SUBSET Vaults, entry: EntryRec,
     doomed: SUBSET Vaults, changed: BOOLEAN, moved: BOOLEAN, alone: BOOLEAN]

Entries(f) == DOMAIN f \subseteq Vaults /\ \A v \in DOMAIN f : f[v] \in EntryRec

TypeOK ==
    /\ disk \in [Vaults -> Int]
    /\ dirs \subseteq Dirs
    /\ Entries(cache) /\ Entries(cacheFile)
    /\ scan \in [Scanners -> ScanRec]
    /\ \A s \in Scanners : At(s, "rest") => scan[s] = Rest
    /\ clearing \in {"rest", "unlink", "memory", "config"}
    /\ older \subseteq {"log", "config"}
    /\ excuse \in [overlap: BOOLEAN, refused: SUBSET {"log", "cache", "config"}]

-----------------------------------------------------------------------------
(* Clearing *)

\* While the window clears, no scan begins; unless one was running at its
\* beginning, none is.
NoneOverlaps == (~UiFree /\ ~excuse.overlap) => ~Busy

\* What a scan has in hand is new, unless it has it from before a clearing.
NewInHand == ~excuse.overlap => \A s \in Scanners : ~scan[s].entry.old

\* What has been cleared so far, store by store.
Cleared ==
    /\ older \subseteq excuse.refused \cup (IF UiFree THEN {} ELSE {"config"})
    /\ \/ "cache" \in excuse.refused \/ excuse.overlap
       \/ /\ clearing # "unlink" => Old(cacheFile) = {}
          /\ clearing \notin {"unlink", "memory"} => Old(cache) = {}

-----------------------------------------------------------------------------
(* A scan by itself *)

\* Of two scans at work neither is alone, and none is beside a clearing.
Company ==
    /\ \A s, t \in Scanners : s # t /\ AtWork(s) /\ AtWork(t) => ~scan[s].alone
    /\ ~UiFree => \A s \in Scanners : ~At(s, "rest") => ~scan[s].alone

\* The keys listed for deletion are still there.
Doomed == \A s \in Scanners : At(s, "drop") /\ scan[s].alone => scan[s].doomed \subseteq DOMAIN cache

-----------------------------------------------------------------------------
(* What a scan shows *)

Abs(n) == IF n < 0 THEN -n ELSE n

\* Modification times never return: an entry for an earlier file is no hit.
Fresh(v, stamp) == stamp <= Abs(disk[v])

\* An entry for the file as it is comes from a vault.
Sound(v, stamp) == Fresh(v, stamp) /\ (stamp = Abs(disk[v]) => stamp \notin Damaged)

Caches ==
    /\ \A v \in DOMAIN cache : Sound(v, cache[v].stamp)
    /\ \A v \in DOMAIN cacheFile : Sound(v, cacheFile[v].stamp)

Reading(s) == At(s, "read") \/ At(s, "keep")

\* The file a scan is reading, and what it knows about it.
Hand(s) ==
    \E v \in Vaults :
        /\ scan[s].at = {v}
        /\ Fresh(v, scan[s].entry.stamp)
        /\ At(s, "keep") => Sound(v, scan[s].entry.stamp)

InHand == \A s \in Scanners : Reading(s) => Hand(s)

\* The vaults a scan should find.
Due(s) == {u \in OnDisk : DirOf[u] \in scan[s].dirs /\ disk[u] \notin Damaged}

\* While the disk stays as it is, it finds these and no others.
Found(s) ==
    /\ \A h \in scan[s].hits : h[1] \in Due(s) /\ h[2] = disk[h[1]]
    /\ scan[s].left \subseteq {v \in Vaults : DirOf[v] \in scan[s].dirs}
    /\ Reading(s) => \A v \in scan[s].at : DirOf[v] \in scan[s].dirs /\ scan[s].entry.stamp = disk[v]
    /\ At(s, "keep") => scan[s].at \subseteq Due(s)
    /\ \A u \in Due(s) : \/ <<u, disk[u]>> \in scan[s].hits
                         \/ u \in scan[s].left
                         \/ Reading(s) /\ u \in scan[s].at
    /\ scan[s].pc \in {"drop", "save", "dump", "posted"} => scan[s].left = {}

Finding == \A s \in Scanners : scan[s].pc \notin {"rest", "failed"} /\ ~scan[s].moved => Found(s)

ForgetInv == NoneOverlaps /\ NewInHand /\ Cleared
AloneInv == Company /\ Doomed /\ ScanFailsNotAlone
ExactInv == Caches /\ InHand /\ Finding

Inv == TypeOK /\ ForgetInv /\ AloneInv /\ ExactInv

-----------------------------------------------------------------------------
(* Types *)

LEMMA RestType == Rest \in ScanRec
BY DEF Rest, ScanRec, Stages, EntryRec

\* One scan goes on, the others stay where they are.
LEMMA SetFacts ==
    ASSUME scan \in [Scanners -> ScanRec], NEW s \in Scanners, NEW rec \in ScanRec, Set(s, rec)
    PROVE  /\ scan' \in [Scanners -> ScanRec] /\ scan'[s] = rec
           /\ \A t \in Scanners \ {s} : scan'[t] = scan[t]
BY DEF Set

LEMMA EntriesFacts ==
    ASSUME NEW f, Entries(f)
    PROVE  /\ Entries(NoEntries) /\ Entries(Aged(f))
           /\ \A v \in Vaults : Entries(Without(f, v))
           /\ \A v \in Vaults, e \in EntryRec : Entries(With(f, v, e))
           /\ \A v \in DOMAIN f : Aged(f)[v].stamp = f[v].stamp
           /\ DOMAIN Aged(f) = DOMAIN f
<1>1. \A v \in DOMAIN f : [f[v] EXCEPT !.old = TRUE] \in EntryRec
                          /\ [f[v] EXCEPT !.old = TRUE].stamp = f[v].stamp
  BY DEF Entries, EntryRec
<1> QED
  BY <1>1 DEF Entries, NoEntries, Aged, Without, With

\* A step of a scan that leaves the rest of the world alone.
LEMMA ScanType ==
    ASSUME TypeOK, NEW s \in Scanners, NEW rec \in ScanRec, Set(s, rec),
           rec.pc = "rest" => rec = Rest,
           UNCHANGED <<disk, dirs, clearVars>>, Entries(cache'), Entries(cacheFile')
    PROVE  TypeOK'
<1>1. scan' \in [Scanners -> ScanRec] /\ scan'[s] = rec
      /\ \A t \in Scanners \ {s} : scan'[t] = scan[t]
  BY SetFacts DEF TypeOK
<1>2. \A t \in Scanners : At(t, "rest")' => scan'[t] = Rest
  BY <1>1 DEF TypeOK, At
<1> QED
  BY <1>1, <1>2 DEF TypeOK, clearVars

LEMMA TypeInitially == Init => TypeOK
<1> SUFFICES ASSUME Init PROVE TypeOK
  OBVIOUS
<1>1. Entries(NoEntries)
  BY DEF Entries, NoEntries
<1> QED
  BY <1>1, RestType DEF Init, TypeOK

\* The records of the steps of a scan.
LEMMA StepRecords ==
    ASSUME TypeOK, NEW s \in Scanners, ~At(s, "rest"), ScanStep(s)
    PROVE  \E rec \in ScanRec :
              /\ Set(s, rec) /\ rec.pc # "rest"
              /\ rec.dirs = scan[s].dirs \/ rec.pc = "failed"
              /\ rec.alone = scan[s].alone
              /\ rec.moved = scan[s].moved \/ rec.pc = "failed"
              /\ rec.entry.old => scan[s].entry.old
<1> DEFINE Good(rec) == /\ rec \in ScanRec /\ Set(s, rec) /\ rec.pc # "rest"
                        /\ rec.dirs = scan[s].dirs \/ rec.pc = "failed"
                        /\ rec.alone = scan[s].alone
                        /\ rec.moved = scan[s].moved \/ rec.pc = "failed"
                        /\ rec.entry.old => scan[s].entry.old
<1> SUFFICES \E rec : Good(rec)
  OBVIOUS
<1>r. scan[s] \in ScanRec /\ Rest \in ScanRec /\ disk \in [Vaults -> Int]
  BY RestType DEF TypeOK
<1>1. ASSUME NEW v \in Vaults, Visit(s, v) PROVE \E rec : Good(rec)
  <2> DEFINE rest == [scan[s] EXCEPT !.left = @ \ {v}, !.seen = @ \cup ({v} \cap OnDisk)]
  <2>1. rest \in ScanRec /\ rest.pc = "walk" /\ rest.dirs = scan[s].dirs
        /\ rest.alone = scan[s].alone /\ rest.moved = scan[s].moved
        /\ rest.entry = scan[s].entry
    BY <1>1, <1>r DEF Visit, At, ScanRec, Stages
  <2>2. CASE ~There(v)
    <3>1. Good(rest)
      BY <1>1, <2>1, <2>2 DEF Visit
    <3> QED
      BY <3>1
  <2>3. CASE There(v) /\ Cached(v)
    <3> DEFINE rec == [rest EXCEPT !.hits = @ \cup {<<v, cache[v].stamp>>}]
    <3>1. cache[v].stamp \in Nat
      BY <2>3 DEF Cached, TypeOK, Entries, EntryRec
    <3>2. Set(s, rec)
      BY <1>1, <2>3 DEF Visit
    <3>3. rec \in ScanRec /\ rec.pc = "walk" /\ rec.dirs = scan[s].dirs
          /\ rec.alone = scan[s].alone /\ rec.moved = scan[s].moved /\ rec.entry = scan[s].entry
      <4> HIDE DEF rest
      <4> QED
        BY <2>1, <3>1 DEF ScanRec
    <3>4. Good(rec)
      BY <3>2, <3>3
    <3> QED
      BY <3>4
  <2>4. CASE There(v) /\ ~Cached(v)
    <3> DEFINE rec == [rest EXCEPT !.pc = "read", !.at = {v}, !.entry.stamp = disk[v]]
    <3>1. disk[v] \in Nat
      BY <1>r, <2>4 DEF There
    <3>2. Set(s, rec)
      BY <1>1, <2>4 DEF Visit
    <3>3. rec \in ScanRec /\ rec.pc = "read" /\ rec.dirs = scan[s].dirs
          /\ rec.alone = scan[s].alone /\ rec.moved = scan[s].moved
          /\ rec.entry.old = scan[s].entry.old
      <4> HIDE DEF rest
      <4> QED
        BY <2>1, <3>1, <1>r DEF ScanRec, Stages, EntryRec
    <3>4. Good(rec)
      BY <3>2, <3>3
    <3> QED
      BY <3>4
  <2> QED
    BY <2>2, <2>3, <2>4
<1>2. ASSUME Extract(s) PROVE \E rec : Good(rec)
  <2> DEFINE keep == [scan[s] EXCEPT !.pc = "keep"]
             skip == [scan[s] EXCEPT !.pc = "walk", !.at = {}, !.entry = Rest.entry]
  <2>1. Set(s, keep) \/ Set(s, skip)
    BY <1>2 DEF Extract
  <2>2. keep \in ScanRec /\ skip \in ScanRec /\ keep.pc = "keep" /\ skip.pc = "walk"
        /\ keep.dirs = scan[s].dirs /\ keep.alone = scan[s].alone /\ keep.moved = scan[s].moved
        /\ keep.entry = scan[s].entry
        /\ skip.dirs = scan[s].dirs /\ skip.alone = scan[s].alone /\ skip.moved = scan[s].moved
        /\ skip.entry.old = FALSE
    BY <1>r DEF ScanRec, Stages, EntryRec, Rest
  <2>3. Good(keep) \/ Good(skip)
    BY <2>1, <2>2
  <2> QED
    BY <2>3
<1>3. ASSUME Keep(s) PROVE \E rec : Good(rec)
  <2>1. PICK v \in scan[s].at :
          Set(s, [scan[s] EXCEPT !.pc = "walk", !.at = {}, !.entry = Rest.entry,
                                 !.changed = TRUE,
                                 !.hits = @ \cup {<<v, scan[s].entry.stamp>>}])
    BY <1>3 DEF Keep
  <2> DEFINE rec == [scan[s] EXCEPT !.pc = "walk", !.at = {}, !.entry = Rest.entry,
                                    !.changed = TRUE,
                                    !.hits = @ \cup {<<v, scan[s].entry.stamp>>}]
  <2>2. v \in Vaults /\ scan[s].entry.stamp \in Nat /\ Rest.entry \in EntryRec
        /\ Rest.entry.old = FALSE
    BY <1>r DEF ScanRec, EntryRec, Rest
  <2>3. rec.hits \in SUBSET (Vaults \X Nat)
    BY <1>r, <2>2 DEF ScanRec
  <2>4. rec \in ScanRec /\ rec.pc = "walk" /\ rec.dirs = scan[s].dirs
        /\ rec.alone = scan[s].alone /\ rec.moved = scan[s].moved /\ rec.entry.old = FALSE
    BY <1>r, <2>2, <2>3 DEF ScanRec, Stages
  <2>5. Good(rec)
    BY <2>1, <2>4
  <2> QED
    BY <2>5
<1>4. ASSUME Raise(s) PROVE \E rec : Good(rec)
  <2> DEFINE rec == [Rest EXCEPT !.pc = "failed", !.alone = scan[s].alone]
  <2>1. rec \in ScanRec /\ rec.pc = "failed" /\ rec.alone = scan[s].alone /\ rec.entry.old = FALSE
    BY <1>r DEF ScanRec, Stages, Rest
  <2>2. Good(rec)
    BY <1>4, <2>1 DEF Raise
  <2> QED
    BY <2>2
<1>5. ASSUME Prune(s) PROVE \E rec : Good(rec)
  <2> DEFINE rec == [scan[s] EXCEPT !.pc = "drop", !.doomed = Outdated(s), !.seen = {}]
  <2>1. rec \in ScanRec /\ rec.pc = "drop" /\ rec.dirs = scan[s].dirs
        /\ rec.alone = scan[s].alone /\ rec.moved = scan[s].moved /\ rec.entry = scan[s].entry
    BY <1>r DEF ScanRec, Stages, Outdated, TypeOK, Entries
  <2>2. Set(s, rec) \/ Raise(s)
    BY <1>5 DEF Prune
  <2>3. Set(s, rec) => Good(rec)
    BY <2>1
  <2> QED
    BY <2>2, <2>3, <1>4
<1>6. ASSUME Drop(s) PROVE \E rec : Good(rec)
  <2> DEFINE more(v) == [scan[s] EXCEPT !.doomed = @ \ {v}, !.changed = TRUE]
             over == [scan[s] EXCEPT !.pc = IF scan[s].changed THEN "save" ELSE "posted",
                                     !.changed = FALSE]
  <2>1. \/ \E v \in scan[s].doomed : Set(s, more(v))
        \/ Raise(s) \/ Set(s, over)
    BY <1>6 DEF Drop
  <2>2. over \in ScanRec /\ over.pc # "rest" /\ over.dirs = scan[s].dirs
        /\ over.alone = scan[s].alone /\ over.moved = scan[s].moved /\ over.entry = scan[s].entry
    BY <1>r DEF ScanRec, Stages
  <2>3. Set(s, over) => Good(over)
    BY <2>2
  <2>4. ASSUME NEW v \in scan[s].doomed, Set(s, more(v)) PROVE Good(more(v))
    <3>1. more(v) \in ScanRec /\ more(v).pc = scan[s].pc /\ more(v).dirs = scan[s].dirs
          /\ more(v).alone = scan[s].alone /\ more(v).moved = scan[s].moved
          /\ more(v).entry = scan[s].entry
      BY <1>r DEF ScanRec
    <3>2. more(v).pc # "rest"
      BY <1>6, <3>1 DEF Drop, At
    <3> QED
      BY <2>4, <3>1, <3>2
  <2> QED
    BY <2>1, <2>3, <2>4, <1>4
<1>7. ASSUME Open(s) PROVE \E rec : Good(rec)
  <2> DEFINE dump == [scan[s] EXCEPT !.pc = "dump"]
             post == [scan[s] EXCEPT !.pc = "posted"]
  <2>1. dump \in ScanRec /\ post \in ScanRec /\ dump.pc = "dump" /\ post.pc = "posted"
        /\ dump.dirs = scan[s].dirs /\ dump.alone = scan[s].alone /\ dump.moved = scan[s].moved
        /\ dump.entry = scan[s].entry /\ post.entry = scan[s].entry
        /\ post.dirs = scan[s].dirs /\ post.alone = scan[s].alone /\ post.moved = scan[s].moved
    BY <1>r DEF ScanRec, Stages
  <2>2. Good(dump) \/ Good(post)
    BY <1>7, <2>1 DEF Open
  <2> QED
    BY <2>2
<1>8. ASSUME Dump(s) PROVE \E rec : Good(rec)
  <2> DEFINE rec == [scan[s] EXCEPT !.pc = "posted", !.at = {}]
  <2>1. rec \in ScanRec /\ rec.pc = "posted" /\ rec.dirs = scan[s].dirs
        /\ rec.alone = scan[s].alone /\ rec.moved = scan[s].moved /\ rec.entry = scan[s].entry
    BY <1>r DEF ScanRec, Stages
  <2>2. Good(rec)
    BY <1>8, <2>1 DEF Dump
  <2> QED
    BY <2>2
<1> HIDE DEF Good
<1> QED
  BY <1>1, <1>2, <1>3, <1>5, <1>6, <1>7, <1>8 DEF ScanStep

\* What the steps of a scan do to the two copies of the cache.
LEMMA StepCaches ==
    ASSUME TypeOK, NEW s \in Scanners, ScanStep(s)
    PROVE  /\ \/ cache' = cache
              \/ At(s, "keep") /\ \E v \in scan[s].at : cache' = With(cache, v, scan[s].entry)
              \/ At(s, "drop") /\ \E v \in scan[s].doomed \cap DOMAIN cache :
                                     cache' = Without(cache, v)
           /\ \/ cacheFile' \in {cacheFile, NoEntries}
              \/ At(s, "dump") /\ cacheFile' = cache
           /\ UNCHANGED <<disk, dirs, clearVars>>
           /\ AtWork(s)
<1>1. ASSUME NEW v \in Vaults, Visit(s, v)
      PROVE  UNCHANGED <<cache, cacheFile, disk, dirs, clearVars>> /\ AtWork(s)
  BY <1>1 DEF Visit, At, AtWork, clearVars
<1>2. CASE Extract(s) \/ Prune(s)
  BY <1>2 DEF Extract, Prune, At, AtWork, clearVars
<1>3. CASE Keep(s)
  BY <1>3 DEF Keep, At, AtWork, clearVars
<1>4. CASE Drop(s)
  BY <1>4 DEF Drop, At, AtWork, clearVars
<1>5. CASE Open(s)
  BY <1>5 DEF Open, At, AtWork, clearVars
<1>6. CASE Dump(s)
  BY <1>6 DEF Dump, At, AtWork, clearVars
<1> QED
  BY <1>1, <1>2, <1>3, <1>4, <1>5, <1>6 DEF ScanStep

LEMMA TypeStep == TypeOK /\ [Next]_vars => TypeOK'
<1> SUFFICES ASSUME TypeOK, [Next]_vars PROVE TypeOK'
  OBVIOUS
<1>r. Rest \in ScanRec /\ Entries(NoEntries) /\ scan \in [Scanners -> ScanRec]
  BY RestType, EntriesFacts DEF TypeOK
<1>1. ASSUME NEW v \in Vaults, Touch(v) PROVE TypeOK'
  <2>1. disk' \in [Vaults -> Int]
    BY <1>1 DEF Touch, TypeOK
  <2>2. \A s \in Scanners : [scan[s] EXCEPT !.moved = TRUE] \in ScanRec
    BY <1>r DEF ScanRec
  <2>3. \A s \in Scanners : scan'[s] \in ScanRec /\ (At(s, "rest")' => scan'[s] = Rest)
    BY <1>1, <1>r, <2>2 DEF Touch, At, ScanRec
  <2>4. scan' \in [Scanners -> ScanRec]
    BY <1>1, <2>3 DEF Touch
  <2> QED
    BY <1>1, <2>1, <2>3, <2>4 DEF Touch, TypeOK, clearVars
<1>2. ASSUME NEW d \in Dirs, ChangeDirs(d) PROVE TypeOK'
  BY <1>2 DEF ChangeDirs, TypeOK, clearVars, At
<1>3. ASSUME ClearLog PROVE TypeOK'
  BY <1>3 DEF ClearLog, TypeOK, At
<1>4. ASSUME NEW s \in Scanners, StartScan(s) PROVE TypeOK'
  <2> DEFINE rec == [Rest EXCEPT !.pc = "walk", !.dirs = dirs,
                                 !.left = {v \in Vaults : DirOf[v] \in dirs},
                                 !.alone = ~\E u \in Others(s) : AtWork(u)]
  <2>1. rec \in ScanRec /\ rec.pc = "walk"
    BY <1>r DEF ScanRec, Stages, TypeOK, Rest
  <2>2. \A t \in Scanners : [scan[t] EXCEPT !.alone = FALSE] \in ScanRec
                            /\ [scan[t] EXCEPT !.alone = FALSE].pc = scan[t].pc
    BY <1>r DEF ScanRec
  <2>3. scan' = [t \in Scanners |-> IF t = s THEN rec
                    ELSE IF AtWork(t) THEN [scan[t] EXCEPT !.alone = FALSE] ELSE scan[t]]
    BY <1>4 DEF StartScan
  <2> HIDE DEF rec
  <2>4. scan' \in [Scanners -> ScanRec]
    BY <1>r, <2>1, <2>2, <2>3
  <2>5. \A t \in Scanners : At(t, "rest")' => scan'[t] = Rest
    BY <2>1, <2>2, <2>3 DEF At, AtWork, TypeOK
  <2> QED
    BY <1>4, <2>4, <2>5 DEF StartScan, TypeOK, clearVars
<1>5. ASSUME NEW s \in Scanners, ScanStep(s) PROVE TypeOK'
  <2>1. ~At(s, "rest")
    BY <1>5, StepCaches DEF AtWork, At
  <2>2. PICK rec \in ScanRec : Set(s, rec) /\ rec.pc # "rest"
    BY <1>5, <2>1, StepRecords
  <2>3. scan[s].entry \in EntryRec /\ scan[s].at \subseteq Vaults
    BY <1>r DEF ScanRec
  <2>4. Entries(cache) /\ Entries(cacheFile)
    BY DEF TypeOK
  <2>5. \A v \in scan[s].at : Entries(With(cache, v, scan[s].entry))
    BY <2>3, <2>4, EntriesFacts
  <2>6. \A v \in DOMAIN cache : Entries(Without(cache, v))
    BY <2>4, EntriesFacts DEF Entries
  <2>7. Entries(cache') /\ Entries(cacheFile')
    BY <1>5, <1>r, <2>4, <2>5, <2>6, StepCaches
  <2> QED
    BY <1>5, <2>2, <2>7, ScanType, StepCaches
<1>6. ASSUME NEW s \in Scanners, OnLibraryResults(s) PROVE TypeOK'
  BY <1>6, <1>r, ScanType DEF OnLibraryResults, TypeOK
<1>7. ASSUME ClearBegins PROVE TypeOK'
  <2>1. \A s \in Scanners :
          [scan[s] EXCEPT !.alone = FALSE, !.entry.old = At(s, "keep")] \in ScanRec
    BY <1>r DEF ScanRec, EntryRec, At
  <2>2. \A s \in Scanners : scan'[s] \in ScanRec /\ (At(s, "rest")' => scan'[s] = Rest)
    BY <1>7, <1>r, <2>1 DEF ClearBegins, At, ScanRec
  <2>3. scan' \in [Scanners -> ScanRec]
    BY <1>7, <2>2 DEF ClearBegins
  <2>4. Entries(cache') /\ Entries(cacheFile')
    BY <1>7, EntriesFacts DEF ClearBegins, TypeOK
  <2> QED
    <3>1. excuse' \in [overlap: BOOLEAN, refused: SUBSET {"log", "cache", "config"}]
          /\ older' \subseteq {"log", "config"}
      <4>1. Busy \in BOOLEAN
        BY DEF Busy
      <4> DEFINE T == [overlap: BOOLEAN, refused: SUBSET {"log", "cache", "config"}]
      <4>2. \A b \in BOOLEAN : [overlap |-> b, refused |-> {}] \in T
                             /\ [overlap |-> b, refused |-> {"log"}] \in T
        OBVIOUS
      <4>3. [overlap |-> Busy, refused |-> {}] \in T /\ [overlap |-> Busy, refused |-> {"log"}] \in T
        BY <4>1, <4>2, Zenon
      <4>4. excuse' \in T
        BY <1>7, <4>3, Zenon DEF ClearBegins
      <4> QED
        BY <1>7, <4>4 DEF ClearBegins
    <3> QED
      BY <1>7, <2>2, <2>3, <2>4, <3>1 DEF ClearBegins, TypeOK
<1>8. ASSUME ClearUnlinks PROVE TypeOK'
  <2>1. \A s \in Scanners : [scan[s] EXCEPT !.at = Vaults] \in ScanRec
    BY <1>r DEF ScanRec
  <2>2. \A s \in Scanners : scan'[s] \in ScanRec /\ (At(s, "rest")' => scan'[s] = Rest)
    <3>1. \A s \in Scanners : [scan[s] EXCEPT !.at = Vaults].pc = scan[s].pc
      BY <1>r DEF ScanRec
    <3>2. \A s \in Scanners : \/ scan'[s] = scan[s]
                              \/ scan[s].pc = "dump" /\ scan'[s] = [scan[s] EXCEPT !.at = Vaults]
      BY <1>8, <1>r DEF ClearUnlinks, At
    <3> QED
      BY <1>r, <2>1, <3>1, <3>2 DEF TypeOK, At
  <2>3. scan' \in [Scanners -> ScanRec]
    BY <1>8, <1>r, <2>2 DEF ClearUnlinks
  <2>4. excuse' \in [overlap: BOOLEAN, refused: SUBSET {"log", "cache", "config"}]
    BY <1>8 DEF ClearUnlinks, TypeOK
  <2> QED
    BY <1>8, <1>r, <2>2, <2>3, <2>4 DEF ClearUnlinks, TypeOK
<1>9. ASSUME ClearMemory PROVE TypeOK'
  BY <1>9, <1>r DEF ClearMemory, TypeOK, At
<1>10. ASSUME ClearConfig PROVE TypeOK'
  BY <1>10 DEF ClearConfig, TypeOK, At
<1>11. ASSUME Restart PROVE TypeOK'
  <2>1. excuse' \in [overlap: BOOLEAN, refused: SUBSET {"log", "cache", "config"}]
    BY <1>11 DEF Restart, TypeOK
  <2> QED
    BY <1>11, <1>r, <2>1 DEF Restart, TypeOK, At
<1>12. CASE UNCHANGED vars
  BY <1>12 DEF vars, TypeOK, clearVars, At
<1> QED
  BY <1>1, <1>2, <1>3, <1>4, <1>5, <1>6, <1>7, <1>8, <1>9, <1>10, <1>11, <1>12 DEF Next

(* What each step of a scan makes of its record. *)

LEMMA VisitFields ==
    ASSUME TypeOK, NEW s \in Scanners, NEW v \in Vaults, Visit(s, v)
    PROVE  /\ scan[s].pc = "walk" /\ v \in scan[s].left
           /\ scan'[s].left = scan[s].left \ {v}
           /\ scan'[s].dirs = scan[s].dirs /\ scan'[s].moved = scan[s].moved
           /\ \/ /\ ~There(v) /\ scan'[s].pc = "walk" /\ scan'[s].hits = scan[s].hits
              \/ /\ There(v) /\ Cached(v) /\ scan'[s].pc = "walk"
                 /\ scan'[s].hits = scan[s].hits \cup {<<v, cache[v].stamp>>}
              \/ /\ There(v) /\ scan'[s].pc = "read" /\ scan'[s].hits = scan[s].hits
                 /\ scan'[s].at = {v} /\ scan'[s].entry.stamp = disk[v]
<1> DEFINE rest == [scan[s] EXCEPT !.left = @ \ {v}, !.seen = @ \cup ({v} \cap OnDisk)]
<1>r. scan \in [Scanners -> ScanRec] /\ scan[s] \in ScanRec /\ scan[s].pc = "walk"
      /\ v \in scan[s].left
  BY DEF Visit, At, TypeOK
<1>1. rest \in ScanRec /\ rest.pc = "walk" /\ rest.dirs = scan[s].dirs
      /\ rest.moved = scan[s].moved /\ rest.hits = scan[s].hits
      /\ rest.left = scan[s].left \ {v}
  BY <1>r DEF ScanRec, Stages
<1>2. \/ ~There(v) /\ Set(s, rest)
      \/ There(v) /\ Cached(v) /\ Set(s, [rest EXCEPT !.hits = @ \cup {<<v, cache[v].stamp>>}])
      \/ There(v) /\ Set(s, [rest EXCEPT !.pc = "read", !.at = {v}, !.entry.stamp = disk[v]])
  BY DEF Visit
<1> HIDE DEF rest
<1>3. CASE ~There(v) /\ Set(s, rest)
  BY <1>r, <1>1, <1>3 DEF Set
<1>4. CASE There(v) /\ Cached(v) /\ Set(s, [rest EXCEPT !.hits = @ \cup {<<v, cache[v].stamp>>}])
  BY <1>r, <1>1, <1>4 DEF Set, ScanRec
<1>5. CASE There(v) /\ Set(s, [rest EXCEPT !.pc = "read", !.at = {v}, !.entry.stamp = disk[v]])
  BY <1>r, <1>1, <1>5 DEF Set, ScanRec, EntryRec
<1> QED
  BY <1>2, <1>3, <1>4, <1>5

LEMMA ExtractFields ==
    ASSUME TypeOK, NEW s \in Scanners, Extract(s)
    PROVE  \E v \in scan[s].at :
           /\ scan[s].pc = "read"
           /\ scan'[s].left = scan[s].left /\ scan'[s].hits = scan[s].hits
           /\ scan'[s].dirs = scan[s].dirs /\ scan'[s].moved = scan[s].moved
           /\ \/ /\ There(v) /\ disk[v] \notin Damaged /\ scan'[s].pc = "keep"
                 /\ scan'[s].at = scan[s].at /\ scan'[s].entry = scan[s].entry
              \/ /\ ~There(v) \/ disk[v] \in Damaged
                 /\ scan'[s].pc = "walk" /\ scan'[s].at = {}
<1>r. scan \in [Scanners -> ScanRec] /\ scan[s] \in ScanRec
  BY DEF TypeOK
<1>1. PICK v \in scan[s].at :
         \/ /\ There(v) /\ disk[v] \notin Damaged
            /\ Set(s, [scan[s] EXCEPT !.pc = "keep"])
         \/ /\ ~There(v) \/ disk[v] \in Damaged
            /\ Set(s, [scan[s] EXCEPT !.pc = "walk", !.at = {}, !.entry = Rest.entry])
  BY DEF Extract
<1>2. scan[s].pc = "read"
  BY DEF Extract, At
<1>3. CASE Set(s, [scan[s] EXCEPT !.pc = "keep"]) /\ There(v) /\ disk[v] \notin Damaged
  BY <1>r, <1>2, <1>3 DEF Set, ScanRec
<1>4. CASE /\ ~There(v) \/ disk[v] \in Damaged
           /\ Set(s, [scan[s] EXCEPT !.pc = "walk", !.at = {}, !.entry = Rest.entry])
  BY <1>r, <1>2, <1>4 DEF Set, ScanRec
<1> QED
  BY <1>1, <1>3, <1>4

LEMMA KeepFields ==
    ASSUME TypeOK, NEW s \in Scanners, Keep(s)
    PROVE  \E v \in scan[s].at :
           /\ scan[s].pc = "keep" /\ scan'[s].pc = "walk"
           /\ scan'[s].left = scan[s].left /\ scan'[s].at = {}
           /\ scan'[s].dirs = scan[s].dirs /\ scan'[s].moved = scan[s].moved
           /\ scan'[s].hits = scan[s].hits \cup {<<v, scan[s].entry.stamp>>}
           /\ cache' = With(cache, v, scan[s].entry)
<1>r. scan \in [Scanners -> ScanRec] /\ scan[s] \in ScanRec
  BY DEF TypeOK
<1> QED
  BY <1>r DEF Keep, Set, At, ScanRec

LEMMA PruneFields ==
    ASSUME TypeOK, NEW s \in Scanners, Prune(s)
    PROVE  /\ scan[s].pc = "walk" /\ scan[s].left = {}
           /\ \/ /\ scan'[s].pc = "drop" /\ scan'[s].doomed \subseteq DOMAIN cache
                 /\ scan'[s].left = {} /\ scan'[s].hits = scan[s].hits
                 /\ scan'[s].dirs = scan[s].dirs /\ scan'[s].moved = scan[s].moved
              \/ scan'[s].pc = "failed" /\ \E t \in Others(s) : AtWork(t)
<1>r. scan \in [Scanners -> ScanRec] /\ scan[s] \in ScanRec /\ Rest \in ScanRec
  BY RestType DEF TypeOK
<1>1. CASE Set(s, [scan[s] EXCEPT !.pc = "drop", !.doomed = Outdated(s), !.seen = {}])
  BY <1>r, <1>1 DEF Prune, Set, At, ScanRec, Outdated
<1>2. CASE (\E t \in Others(s) : AtWork(t)) /\ Raise(s)
  <2>1. scan'[s].pc = "failed"
    BY <1>r, <1>2 DEF Raise, Set, ScanRec
  <2> QED
    BY <1>2, <2>1 DEF Prune, At
<1> QED
  BY <1>1, <1>2 DEF Prune

LEMMA DropFields ==
    ASSUME TypeOK, NEW s \in Scanners, Drop(s)
    PROVE  /\ scan[s].pc = "drop"
           /\ \/ \E v \in scan[s].doomed :
                    /\ scan'[s].pc = "drop" /\ scan'[s].doomed = scan[s].doomed \ {v}
                    /\ cache' = Without(cache, v)
              \/ scan'[s].pc = "failed" /\ ~(scan[s].doomed \subseteq DOMAIN cache)
              \/ scan'[s].pc \in {"save", "posted"}
           /\ scan'[s].pc # "failed" =>
                /\ scan'[s].left = scan[s].left /\ scan'[s].hits = scan[s].hits
                /\ scan'[s].dirs = scan[s].dirs /\ scan'[s].moved = scan[s].moved
<1>r. scan \in [Scanners -> ScanRec] /\ scan[s] \in ScanRec /\ Rest \in ScanRec
      /\ scan[s].pc = "drop"
  BY RestType DEF TypeOK, Drop, At
<1>1. ASSUME NEW v \in scan[s].doomed, cache' = Without(cache, v),
             Set(s, [scan[s] EXCEPT !.doomed = @ \ {v}, !.changed = TRUE])
      PROVE  /\ scan'[s].pc = "drop" /\ scan'[s].doomed = scan[s].doomed \ {v}
             /\ scan'[s].left = scan[s].left /\ scan'[s].hits = scan[s].hits
             /\ scan'[s].dirs = scan[s].dirs /\ scan'[s].moved = scan[s].moved
  BY <1>r, <1>1 DEF Set, ScanRec
<1>2. Raise(s) => scan'[s].pc = "failed"
  BY <1>r DEF Raise, Set, ScanRec
<1>3. CASE Set(s, [scan[s] EXCEPT !.pc = IF scan[s].changed THEN "save" ELSE "posted",
                                  !.changed = FALSE])
  BY <1>r, <1>3 DEF Set, ScanRec
<1> QED
  BY <1>r, <1>1, <1>2, <1>3 DEF Drop

LEMMA SaveFields ==
    ASSUME TypeOK, NEW s \in Scanners, Open(s) \/ Dump(s)
    PROVE  /\ scan[s].pc \in {"save", "dump"} /\ scan'[s].pc \in {"dump", "posted"}
           /\ scan'[s].left = scan[s].left /\ scan'[s].hits = scan[s].hits
           /\ scan'[s].dirs = scan[s].dirs /\ scan'[s].moved = scan[s].moved
<1>r. scan \in [Scanners -> ScanRec] /\ scan[s] \in ScanRec
  BY DEF TypeOK
<1>1. CASE Open(s)
  BY <1>r, <1>1 DEF Open, Set, At, ScanRec
<1>2. CASE Dump(s)
  BY <1>r, <1>2 DEF Dump, Set, At, ScanRec
<1> QED
  BY <1>1, <1>2

-----------------------------------------------------------------------------
(* Clearing *)

LEMMA OldFacts ==
    ASSUME NEW f
    PROVE  /\ Old(NoEntries) = {}
           /\ \A v : Old(f) = {} => Old(Without(f, v)) = {}
           /\ \A v, e : Old(f) = {} /\ ~e.old => Old(With(f, v, e)) = {}
BY DEF Old, NoEntries, Without, With

\* Where nothing is cleared, only entries a scan has in hand can make a cache old.
LEMMA ForgetKept ==
    ASSUME ForgetInv, UNCHANGED clearVars,
           UiFree \/ \A s \in Scanners : At(s, "rest") => At(s, "rest")',
           ~excuse.overlap => \A s \in Scanners : ~scan'[s].entry.old,
           \/ Old(cache) = {} => Old(cache') = {}
           \/ excuse.overlap,
           \/ cacheFile' = cacheFile \/ Old(cacheFile') = {}
           \/ excuse.overlap
           \/ UiFree /\ cacheFile' = cache
    PROVE  ForgetInv'
<1>1. NoneOverlaps'
  BY DEF ForgetInv, NoneOverlaps, UiFree, Busy, clearVars
<1>2. NewInHand'
  BY DEF ForgetInv, NewInHand, clearVars
<1>3. Cleared'
  BY DEF ForgetInv, Cleared, UiFree, clearVars
<1> QED
  BY <1>1, <1>2, <1>3 DEF ForgetInv

LEMMA ForgetStep == TypeOK /\ ForgetInv /\ [Next]_vars => ForgetInv'
<1> SUFFICES ASSUME TypeOK, ForgetInv, [Next]_vars PROVE ForgetInv'
  OBVIOUS
<1>r. scan \in [Scanners -> ScanRec] /\ ~Rest.entry.old /\ Rest.pc = "rest"
  BY DEF TypeOK, Rest
<1>1. ASSUME NEW v \in Vaults, Touch(v) PROVE ForgetInv'
  <2>1. \A s \in Scanners : [scan[s] EXCEPT !.moved = TRUE].entry = scan[s].entry
    BY <1>r DEF ScanRec
  <2>2. \A s \in Scanners : (At(s, "rest") => At(s, "rest")')
                            /\ (scan'[s].entry.old => scan[s].entry.old)
    BY <1>1, <1>r, <2>1 DEF Touch, At
  <2> QED
    BY <1>1, <2>2, ForgetKept DEF Touch, ForgetInv, NewInHand
<1>2. ASSUME NEW d \in Dirs, ChangeDirs(d) PROVE ForgetInv'
  BY <1>2, ForgetKept DEF ChangeDirs, ForgetInv, NewInHand
<1>3. ASSUME ClearLog PROVE ForgetInv'
  BY <1>3 DEF ClearLog, ForgetInv, NoneOverlaps, NewInHand, Cleared, UiFree, Busy, At
<1>4. ASSUME NEW s \in Scanners, StartScan(s) PROVE ForgetInv'
  <2>1. \A t \in Scanners : [scan[t] EXCEPT !.alone = FALSE].entry = scan[t].entry
    BY <1>r DEF ScanRec
  <2>2. \A t \in Scanners : scan'[t].entry.old => scan[t].entry.old
    <3>1. scan'[s].entry = Rest.entry
      BY <1>4 DEF StartScan, Rest
    <3>2. \A t \in Scanners \ {s} : scan'[t].entry = scan[t].entry
      BY <1>4, <2>1 DEF StartScan
    <3> QED
      BY <1>r, <3>1, <3>2
  <2> QED
    BY <1>4, <2>2, ForgetKept DEF StartScan, ForgetInv, NewInHand
<1>5. ASSUME NEW s \in Scanners, ScanStep(s) PROVE ForgetInv'
  <2>1. UNCHANGED clearVars /\ AtWork(s) /\ ~At(s, "rest") /\ Busy
    BY <1>5, StepCaches DEF AtWork, At, Busy
  <2>2. PICK rec \in ScanRec : Set(s, rec) /\ (rec.entry.old => scan[s].entry.old)
    BY <1>5, <2>1, StepRecords
  <2>3. scan'[s] = rec /\ \A t \in Scanners \ {s} : scan'[t] = scan[t]
    BY <1>r, <2>2, SetFacts
  <2>4. UiFree \/ excuse.overlap
    BY <2>1 DEF ForgetInv, NoneOverlaps
  <2>5. \/ Old(cache) = {} => Old(cache') = {}
        \/ excuse.overlap
    <3>1. CASE cache' = cache
      BY <3>1
    <3>2. ASSUME NEW v \in scan[s].at, cache' = With(cache, v, scan[s].entry)
          PROVE  (Old(cache) = {} => Old(cache') = {}) \/ excuse.overlap
      BY <3>2, OldFacts DEF ForgetInv, NewInHand
    <3>3. ASSUME NEW v \in scan[s].doomed \cap DOMAIN cache, cache' = Without(cache, v)
          PROVE  Old(cache) = {} => Old(cache') = {}
      BY <3>3, OldFacts
    <3> QED
      BY <1>5, <3>1, <3>2, <3>3, StepCaches
  <2>6. \/ cacheFile' = cacheFile \/ Old(cacheFile') = {}
        \/ excuse.overlap
        \/ UiFree /\ cacheFile' = cache
    BY <1>5, <2>4, StepCaches, OldFacts
  <2> QED
    BY <2>1, <2>2, <2>3, <2>4, <2>5, <2>6, ForgetKept DEF ForgetInv, NewInHand, At
<1>6. ASSUME NEW s \in Scanners, OnLibraryResults(s) PROVE ForgetInv'
  <2>1. scan'[s] = Rest /\ \A t \in Scanners \ {s} : scan'[t] = scan[t]
    BY <1>6, <1>r, RestType, SetFacts DEF OnLibraryResults
  <2> QED
    BY <1>6, <1>r, <2>1, ForgetKept DEF OnLibraryResults, ForgetInv, NewInHand
<1>7. ASSUME ClearBegins PROVE ForgetInv'
  <2>1. \/ excuse' = [overlap |-> Busy, refused |-> {}] /\ older' = {"config"}
        \/ excuse' = [overlap |-> Busy, refused |-> {"log"}] /\ older' = {"config", "log"}
    BY <1>7 DEF ClearBegins
  <2>2. /\ excuse'.overlap <=> Busy
        /\ older' \subseteq excuse'.refused \cup {"config"}
    BY <2>1
  <2>3. ~Busy => \A s \in Scanners : scan'[s] = Rest
    BY <1>7 DEF ClearBegins, Busy
  <2>4. NoneOverlaps' /\ NewInHand'
    BY <1>r, <2>2, <2>3 DEF NoneOverlaps, NewInHand, Busy, At
  <2>5. clearing' = "unlink"
    BY <1>7 DEF ClearBegins
  <2>6. Cleared'
    BY <2>2, <2>5 DEF Cleared, UiFree
  <2> QED
    BY <2>4, <2>6 DEF ForgetInv
<1>8. ASSUME ClearUnlinks PROVE ForgetInv'
  <2>1. \A s \in Scanners : [scan[s] EXCEPT !.at = Vaults].entry = scan[s].entry
                            /\ [scan[s] EXCEPT !.at = Vaults].pc = scan[s].pc
    BY <1>r DEF ScanRec
  <2>2. \A s \in Scanners : scan'[s].pc = scan[s].pc /\ scan'[s].entry = scan[s].entry
    BY <1>8, <2>1 DEF ClearUnlinks
  <2>3. \/ excuse' = excuse /\ cacheFile' = NoEntries
        \/ excuse'.overlap = excuse.overlap
           /\ excuse'.refused = excuse.refused \cup {"cache"}
    BY <1>8 DEF ClearUnlinks, TypeOK
  <2>4. ~UiFree /\ ~UiFree' /\ clearing = "unlink" /\ clearing' = "memory"
        /\ older' = older
    BY <1>8 DEF ClearUnlinks, UiFree
  <2>5. NoneOverlaps' /\ NewInHand'
    BY <2>2, <2>3, <2>4 DEF ForgetInv, NoneOverlaps, NewInHand, Busy, At
  <2>6. Cleared'
    BY <2>3, <2>4, OldFacts DEF ForgetInv, Cleared
  <2> QED
    BY <2>5, <2>6 DEF ForgetInv
<1>9. ASSUME ClearMemory PROVE ForgetInv'
  BY <1>9, OldFacts
     DEF ClearMemory, ForgetInv, NoneOverlaps, NewInHand, Cleared, UiFree, Busy, At
<1>10. ASSUME ClearConfig PROVE ForgetInv'
  <2>1. \/ excuse' = excuse /\ older' = older \ {"config"}
        \/ /\ excuse'.overlap = excuse.overlap /\ older' = older
           /\ excuse'.refused = excuse.refused \cup {"config"}
    BY <1>10 DEF ClearConfig, TypeOK
  <2>2. NoneOverlaps' /\ NewInHand'
    BY <1>10, <2>1 DEF ClearConfig, ForgetInv, NoneOverlaps, NewInHand, UiFree
  <2>3. Cleared'
    BY <1>10, <2>1 DEF ClearConfig, ForgetInv, Cleared, UiFree
  <2> QED
    BY <2>2, <2>3 DEF ForgetInv
<1>11. ASSUME Restart PROVE ForgetInv'
  <2>1. excuse'.overlap = excuse.overlap /\ excuse.refused \subseteq excuse'.refused
        /\ (clearing = "unlink" => "cache" \in excuse'.refused)
        /\ (clearing # "rest" => "config" \in excuse'.refused)
    BY <1>11 DEF Restart, TypeOK
  <2>2. \A s \in Scanners : scan'[s] = Rest
    BY <1>11 DEF Restart
  <2>3. NoneOverlaps' /\ NewInHand'
    BY <1>11, <1>r, <2>2 DEF Restart, NoneOverlaps, NewInHand, Busy, At
  <2>4. Cleared'
    BY <1>11, <2>1 DEF Restart, ForgetInv, Cleared, UiFree
  <2> QED
    BY <2>3, <2>4 DEF ForgetInv
<1>12. CASE UNCHANGED vars
  BY <1>12 DEF vars, clearVars, ForgetInv, NoneOverlaps, NewInHand, Cleared, UiFree, Busy, At
<1> QED
  BY <1>1, <1>2, <1>3, <1>4, <1>5, <1>6, <1>7, <1>8, <1>9, <1>10, <1>11, <1>12 DEF Next

-----------------------------------------------------------------------------
(* A scan alone *)

\* Whoever was not at work, or not alone, does not become both; and the caches of
\* those who are alone are left to them.
LEMMA AloneKept ==
    ASSUME AloneInv,
           UiFree' => UiFree \/ \A s \in Scanners : At(s, "rest")' \/ ~scan'[s].alone,
           ~UiFree' => \A s \in Scanners : At(s, "rest")' \/ ~scan'[s].alone,
           \A s \in Scanners : AtWork(s)' => AtWork(s) /\ (scan'[s].alone => scan[s].alone),
           \A s \in Scanners : At(s, "drop")' /\ scan'[s].alone
                                   => scan'[s].doomed \subseteq DOMAIN cache',
           \A s \in Scanners : At(s, "failed")' => ~scan'[s].alone
    PROVE  AloneInv'
BY DEF AloneInv, Company, Doomed, ScanFailsNotAlone

LEMMA AloneStep == TypeOK /\ AloneInv /\ [Next]_vars => AloneInv'
<1> SUFFICES ASSUME TypeOK, AloneInv, [Next]_vars PROVE AloneInv'
  OBVIOUS
<1>r. scan \in [Scanners -> ScanRec] /\ Rest \in ScanRec /\ Rest.pc = "rest"
  BY RestType DEF TypeOK, Rest
<1>u. \A s \in Scanners : ~UiFree => At(s, "rest") \/ ~scan[s].alone
  BY DEF AloneInv, Company
<1>d. \A s \in Scanners : At(s, "drop") /\ scan[s].alone => scan[s].doomed \subseteq DOMAIN cache
  BY DEF AloneInv, Doomed
<1>f. \A s \in Scanners : At(s, "failed") => ~scan[s].alone
  BY DEF AloneInv, ScanFailsNotAlone
<1>1. ASSUME NEW v \in Vaults, Touch(v) PROVE AloneInv'
  <2>1. \A s \in Scanners : LET rec == [scan[s] EXCEPT !.moved = TRUE] IN
          rec.pc = scan[s].pc /\ rec.alone = scan[s].alone /\ rec.doomed = scan[s].doomed
    BY <1>r DEF ScanRec
  <2>2. \A s \in Scanners :
          \/ At(s, "rest") /\ At(s, "rest")'
          \/ /\ scan'[s].pc = scan[s].pc /\ scan'[s].alone = scan[s].alone
             /\ scan'[s].doomed = scan[s].doomed
    BY <1>1, <1>r, <2>1 DEF Touch, At
  <2> QED
    BY <1>1, <1>u, <1>d, <1>f, <2>2, AloneKept DEF Touch, clearVars, UiFree, At, AtWork
<1>2. ASSUME NEW d \in Dirs, ChangeDirs(d) PROVE AloneInv'
  BY <1>2, <1>u, <1>d, <1>f, AloneKept DEF ChangeDirs, clearVars, UiFree, At, AtWork
<1>3. ASSUME ClearLog PROVE AloneInv'
  BY <1>3, <1>u, <1>d, <1>f, AloneKept DEF ClearLog, UiFree, At, AtWork
<1>4. ASSUME NEW s \in Scanners, StartScan(s) PROVE AloneInv'
  <2>1. scan'[s].pc = "walk" /\ (scan'[s].alone <=> ~\E u \in Others(s) : AtWork(u))
    BY <1>4, <1>r DEF StartScan, Rest
  <2>2. \A t \in Scanners : LET rec == [scan[t] EXCEPT !.alone = FALSE] IN
          rec.pc = scan[t].pc /\ ~rec.alone
    BY <1>r DEF ScanRec
  <2>3. \A t \in Scanners \ {s} :
          /\ scan'[t].pc = scan[t].pc
          /\ AtWork(t) => ~scan'[t].alone
          /\ ~AtWork(t) => scan'[t] = scan[t]
    BY <1>4, <2>2 DEF StartScan
  <2>4. UiFree' /\ cache' = cache
    BY <1>4 DEF StartScan, UiFree, clearVars
  <2>5. Company'
    BY <2>1, <2>3, <2>4 DEF Company, AtWork, Others
  <2>6. Doomed' /\ ScanFailsNotAlone'
    BY <1>f, <2>1, <2>3, <2>4 DEF Doomed, ScanFailsNotAlone, At, AtWork
  <2> QED
    BY <2>5, <2>6 DEF AloneInv
<1>5. ASSUME NEW s \in Scanners, ScanStep(s) PROVE AloneInv'
  <2>1. UNCHANGED clearVars /\ AtWork(s) /\ ~At(s, "rest")
    BY <1>5, StepCaches DEF AtWork, At
  <2>2. PICK rec \in ScanRec : Set(s, rec) /\ rec.alone = scan[s].alone
    BY <1>5, <2>1, StepRecords
  <2>3. scan'[s].alone = scan[s].alone /\ \A t \in Scanners \ {s} : scan'[t] = scan[t]
    BY <1>r, <2>2, SetFacts
  <2>4. \A t \in Scanners \ {s} :
          /\ AtWork(t) => ~scan[t].alone /\ ~scan[s].alone
    BY <2>1 DEF AloneInv, Company
  <2>5. \A t \in Scanners \ {s} : At(t, "drop")' => ~scan'[t].alone
    BY <2>3, <2>4 DEF At, AtWork
  <2>6. /\ At(s, "drop")' /\ scan'[s].alone => scan'[s].doomed \subseteq DOMAIN cache'
        /\ At(s, "failed")' => ~scan'[s].alone
    <3>1. ASSUME NEW v \in Vaults, Visit(s, v) PROVE ~At(s, "drop")' /\ ~At(s, "failed")'
      BY <3>1, VisitFields DEF At
    <3>2. Extract(s) \/ Keep(s) => ~At(s, "drop")' /\ ~At(s, "failed")'
      BY ExtractFields, KeepFields DEF At
    <3>3. Open(s) \/ Dump(s) => ~At(s, "drop")' /\ ~At(s, "failed")'
      BY SaveFields DEF At
    <3>4. CASE Prune(s)
      <4>1. cache' = cache
        BY <3>4 DEF Prune
      <4>2. (\E t \in Others(s) : AtWork(t)) => ~scan[s].alone
        BY <2>4 DEF Others
      <4> QED
        BY <2>3, <3>4, <4>1, <4>2, PruneFields DEF At
    <3>5. CASE Drop(s)
      <4>1. scan[s].alone => scan[s].doomed \subseteq DOMAIN cache
        BY <1>d, <3>5 DEF Drop
      <4>2. \A v : DOMAIN Without(cache, v) = DOMAIN cache \ {v}
        BY DEF Without
      <4>3. PICK v : \/ /\ scan'[s].pc = "drop" /\ scan'[s].doomed = scan[s].doomed \ {v}
                        /\ cache' = Without(cache, v)
                     \/ scan'[s].pc = "failed" /\ ~(scan[s].doomed \subseteq DOMAIN cache)
                     \/ scan'[s].pc \in {"save", "posted"}
        BY <3>5, DropFields
      <4> QED
        BY <2>3, <4>1, <4>2, <4>3 DEF At
    <3> QED
      BY <1>5, <3>1, <3>2, <3>3, <3>4, <3>5 DEF ScanStep
  <2> QED
    BY <1>u, <1>f, <2>1, <2>3, <2>4, <2>5, <2>6, AloneKept
       DEF clearVars, UiFree, At, AtWork
<1>6. ASSUME NEW s \in Scanners, OnLibraryResults(s) PROVE AloneInv'
  <2>1. scan'[s] = Rest /\ \A t \in Scanners \ {s} : scan'[t] = scan[t]
    BY <1>6, <1>r, SetFacts DEF OnLibraryResults
  <2> QED
    BY <1>6, <1>r, <1>u, <1>d, <1>f, <2>1, AloneKept
       DEF OnLibraryResults, clearVars, UiFree, At, AtWork
<1>7. ASSUME ClearBegins PROVE AloneInv'
  <2>1. \A s \in Scanners : ~[scan[s] EXCEPT !.alone = FALSE, !.entry.old = At(s, "keep")].alone
    BY <1>r DEF ScanRec
  <2>2. \A s \in Scanners : scan'[s] = Rest \/ ~scan'[s].alone
    BY <1>7, <2>1 DEF ClearBegins
  <2>3. \A s \in Scanners : [scan[s] EXCEPT !.alone = FALSE, !.entry.old = At(s, "keep")].pc = scan[s].pc
    BY <1>r DEF ScanRec
  <2>4. \A s \in Scanners : scan'[s].pc \in {"rest", scan[s].pc}
    BY <1>7, <1>r, <2>3 DEF ClearBegins
  <2> QED
    BY <1>r, <2>2, <2>4, AloneKept DEF At, AtWork
<1>8. ASSUME ClearUnlinks PROVE AloneInv'
  <2>1. \A s \in Scanners : LET rec == [scan[s] EXCEPT !.at = Vaults] IN
          rec.pc = scan[s].pc /\ rec.alone = scan[s].alone /\ rec.doomed = scan[s].doomed
    BY <1>r DEF ScanRec
  <2>2. \A s \in Scanners :
          /\ scan'[s].pc = scan[s].pc /\ scan'[s].alone = scan[s].alone
          /\ scan'[s].doomed = scan[s].doomed
    BY <1>8, <2>1 DEF ClearUnlinks
  <2> QED
    BY <1>8, <1>u, <1>d, <1>f, <2>2, AloneKept DEF ClearUnlinks, UiFree, At, AtWork
<1>9. ASSUME ClearMemory PROVE AloneInv'
  BY <1>9, <1>u, <1>f, AloneKept DEF ClearMemory, UiFree, At, AtWork
<1>10. ASSUME ClearConfig PROVE AloneInv'
  BY <1>10, <1>u, <1>d, <1>f, AloneKept DEF ClearConfig, UiFree, At, AtWork
<1>11. ASSUME Restart PROVE AloneInv'
  BY <1>11, <1>r DEF Restart, AloneInv, Company, Doomed, ScanFailsNotAlone, At, AtWork
<1>12. CASE UNCHANGED vars
  BY <1>12, <1>u, <1>d, <1>f, AloneKept DEF vars, clearVars, UiFree, At, AtWork
<1> QED
  BY <1>1, <1>2, <1>3, <1>4, <1>5, <1>6, <1>7, <1>8, <1>9, <1>10, <1>11, <1>12 DEF Next

-----------------------------------------------------------------------------
(* What a scan shows *)

LEMMA TouchFacts ==
    ASSUME TypeOK, NEW v \in Vaults, Touch(v)
    PROVE  \A u \in Vaults : Abs(disk[u]) <= Abs(disk'[u])
<1>1. disk \in [Vaults -> Int]
  BY DEF TypeOK
<1>2. disk' = [disk EXCEPT ![v] = -@] \/ disk' = [disk EXCEPT ![v] = 1 - @]
      \/ disk' = [disk EXCEPT ![v] = 1 + @]
  BY DEF Touch
<1>3. There(v) \/ disk'[v] = 1 - disk[v]
  BY <1>1 DEF Touch
<1>4. \A u \in Vaults \ {v} : disk'[u] = disk[u]
  BY <1>1, <1>2
<1>5. disk'[v] \in {-disk[v], 1 - disk[v], 1 + disk[v]} /\ disk[v] \in Int
  BY <1>1, <1>2
<1>6. Abs(disk[v]) <= Abs(disk'[v])
  <2>1. CASE There(v)
    <3>1. disk'[v] = -disk[v] \/ disk'[v] = 1 + disk[v]
      BY <1>1, <2>1 DEF Touch
    <3> QED
      BY <1>5, <2>1, <3>1 DEF There, Abs
  <2>2. CASE ~There(v)
    BY <1>3, <1>5, <2>2 DEF There, Abs
  <2> QED
    BY <2>1, <2>2
<1>7. \A u \in Vaults : Abs(disk[u]) \in Int /\ Abs(disk[u]) <= Abs(disk[u])
  BY <1>1 DEF Abs
<1> QED
  BY <1>4, <1>6, <1>7

LEMMA Ages ==
    ASSUME TypeOK, NEW v \in Vaults, NEW stamp \in Nat,
           disk' \in [Vaults -> Int], Abs(disk[v]) <= Abs(disk'[v])
    PROVE  (Fresh(v, stamp) => Fresh(v, stamp)') /\ (Sound(v, stamp) => Sound(v, stamp)')
<1>1. Abs(disk[v]) \in Int /\ Abs(disk'[v]) \in Int
  BY DEF TypeOK, Abs
<1> QED
  BY <1>1 DEF Fresh, Sound

\* Entries valid for the same times stay as sound as they were.
LEMMA CachesStep ==
    ASSUME TypeOK, Caches, InHand, [Next]_vars
    PROVE  Caches'
<1>t. TypeOK'
  BY TypeStep
<1>d. ASSUME disk' = disk PROVE \A v, stamp : Sound(v, stamp)' <=> Sound(v, stamp)
  BY <1>d DEF Sound, Fresh
<1>n. DOMAIN NoEntries = {}
  BY DEF NoEntries
<1>1. ASSUME NEW v \in Vaults, Touch(v) PROVE Caches'
  <2>1. \A u \in Vaults : Abs(disk[u]) <= Abs(disk'[u])
    BY <1>1, TouchFacts
  <2>2. disk' \in [Vaults -> Int]
    BY <1>t DEF TypeOK
  <2>3. \A u \in Vaults, stamp \in Nat : Sound(u, stamp) => Sound(u, stamp)'
    BY <2>1, <2>2, Ages
  <2>4. cache' = cache /\ cacheFile' = cacheFile
    BY <1>1 DEF Touch
  <2> QED
    BY <2>3, <2>4 DEF Caches, TypeOK, Entries, EntryRec
<1>2. CASE (\E d \in Dirs : ChangeDirs(d)) \/ ClearLog \/ ClearConfig \/ UNCHANGED vars
           \/ \E s \in Scanners : StartScan(s) \/ OnLibraryResults(s)
  <2>1. UNCHANGED <<disk, cache, cacheFile>>
    BY <1>2 DEF ChangeDirs, ClearLog, ClearConfig, vars, StartScan, OnLibraryResults
  <2> QED
    BY <1>d, <2>1 DEF Caches
<1>3. ASSUME NEW s \in Scanners, ScanStep(s) PROVE Caches'
  <2>1. disk' = disk /\ (cacheFile' \in {cacheFile, NoEntries} \/ cacheFile' = cache)
    BY <1>3, StepCaches
  <2>2. \A v \in DOMAIN cacheFile' : Sound(v, cacheFile'[v].stamp)
    BY <1>n, <2>1 DEF Caches
  <2>3. \A v \in DOMAIN cache' : Sound(v, cache'[v].stamp)
    <3>1. CASE cache' = cache
      BY <3>1 DEF Caches
    <3>2. ASSUME NEW v \in scan[s].at, At(s, "keep"), cache' = With(cache, v, scan[s].entry)
          PROVE  \A u \in DOMAIN cache' : Sound(u, cache'[u].stamp)
      <4>1. Sound(v, scan[s].entry.stamp)
        BY <3>2 DEF InHand, Hand, Reading
      <4> QED
        BY <3>2, <4>1 DEF Caches, With
    <3>3. ASSUME NEW v, cache' = Without(cache, v)
          PROVE  \A u \in DOMAIN cache' : Sound(u, cache'[u].stamp)
      BY <3>3 DEF Caches, Without
    <3> QED
      BY <1>3, <3>1, <3>2, <3>3, StepCaches
  <2> QED
    BY <1>d, <2>1, <2>2, <2>3 DEF Caches
<1>4. CASE ClearBegins
  <2>1. disk' = disk /\ cache' = Aged(cache) /\ cacheFile' = Aged(cacheFile)
    BY <1>4 DEF ClearBegins
  <2>2. /\ DOMAIN Aged(cache) = DOMAIN cache /\ DOMAIN Aged(cacheFile) = DOMAIN cacheFile
        /\ \A v \in DOMAIN cache : Aged(cache)[v].stamp = cache[v].stamp
        /\ \A v \in DOMAIN cacheFile : Aged(cacheFile)[v].stamp = cacheFile[v].stamp
    BY EntriesFacts DEF TypeOK
  <2> QED
    BY <1>d, <2>1, <2>2 DEF Caches
<1>5. CASE ClearUnlinks \/ ClearMemory \/ Restart
  <2>1. disk' = disk /\ cache' \in {cache, NoEntries, cacheFile}
        /\ cacheFile' \in {cacheFile, NoEntries}
    BY <1>5 DEF ClearUnlinks, ClearMemory, Restart
  <2> QED
    BY <1>d, <1>n, <2>1 DEF Caches
<1> QED
  BY <1>1, <1>2, <1>3, <1>4, <1>5 DEF Next

\* A scan that has in hand what it had.
LEMMA HandKept ==
    ASSUME TypeOK, TypeOK', InHand, NEW s \in Scanners,
           Reading(s)' => /\ Reading(s) /\ (At(s, "keep")' => At(s, "keep"))
                          /\ scan'[s].at = scan[s].at
                          /\ scan'[s].entry.stamp = scan[s].entry.stamp,
           \A u \in Vaults : Abs(disk[u]) <= Abs(disk'[u])
    PROVE  Reading(s)' => Hand(s)'
<1> SUFFICES ASSUME Reading(s)' PROVE Hand(s)'
  OBVIOUS
<1> DEFINE n == scan[s].entry.stamp
<1>1. PICK v \in Vaults : /\ scan[s].at = {v}
                          /\ Fresh(v, n)
                          /\ At(s, "keep") => Sound(v, n)
  BY DEF InHand, Hand
<1>2. n \in Nat /\ scan'[s].entry.stamp = n
  BY DEF TypeOK, ScanRec, EntryRec
<1>3. Abs(disk[v]) \in Int /\ Abs(disk'[v]) \in Int
  BY DEF TypeOK, Abs
<1>4. n <= Abs(disk'[v]) /\ (At(s, "keep") => (n = Abs(disk'[v]) => n \notin Damaged))
  BY <1>1, <1>2, <1>3 DEF Fresh, Sound
<1> HIDE DEF n
<1> QED
  BY <1>1, <1>2, <1>4 DEF Hand, Fresh, Sound

LEMMA HandStep ==
    ASSUME TypeOK, InHand, [Next]_vars
    PROVE  InHand'
<1>t. TypeOK'
  BY TypeStep
<1>r. scan \in [Scanners -> ScanRec] /\ Rest \in ScanRec /\ Rest.pc = "rest"
  BY RestType DEF TypeOK, Rest
<1>d. disk' = disk => \A u \in Vaults : Abs(disk[u]) <= Abs(disk'[u])
  BY DEF TypeOK, Abs
\* Whoever is not reading, or reads what it read, is as before.
<1>k. ASSUME \A u \in Vaults : Abs(disk[u]) <= Abs(disk'[u]),
             \A s \in Scanners : Reading(s)' =>
                /\ Reading(s) /\ (At(s, "keep")' => At(s, "keep"))
                /\ scan'[s].at = scan[s].at /\ scan'[s].entry.stamp = scan[s].entry.stamp
      PROVE  InHand'
  BY <1>t, <1>k, HandKept DEF InHand
<1>1. ASSUME NEW v \in Vaults, Touch(v) PROVE InHand'
  <2>1. \A s \in Scanners : LET rec == [scan[s] EXCEPT !.moved = TRUE] IN
          rec.pc = scan[s].pc /\ rec.at = scan[s].at /\ rec.entry = scan[s].entry
    BY <1>r DEF ScanRec
  <2>2. \A s \in Scanners : scan'[s] = Rest \/ scan'[s] = [scan[s] EXCEPT !.moved = TRUE]
    BY <1>1 DEF Touch
  <2>3. \A u \in Vaults : Abs(disk[u]) <= Abs(disk'[u])
    BY <1>1, TouchFacts
  <2> QED
    BY <1>k, <1>r, <2>1, <2>2, <2>3 DEF Reading, At
<1>2. CASE (\E d \in Dirs : ChangeDirs(d)) \/ ClearLog \/ ClearMemory \/ ClearConfig
           \/ UNCHANGED vars
  <2>1. UNCHANGED <<disk, scan>>
    BY <1>2 DEF ChangeDirs, ClearLog, ClearMemory, ClearConfig, vars
  <2> QED
    BY <1>d, <1>k, <2>1 DEF Reading, At
<1>3. ASSUME NEW s \in Scanners, StartScan(s) PROVE InHand'
  <2>1. \A t \in Scanners : LET rec == [scan[t] EXCEPT !.alone = FALSE] IN
          rec.pc = scan[t].pc /\ rec.at = scan[t].at /\ rec.entry = scan[t].entry
    BY <1>r DEF ScanRec
  <2>2. scan'[s].pc = "walk" /\ disk' = disk
    BY <1>3, <1>r DEF StartScan, Rest
  <2>3. \A t \in Scanners \ {s} : scan'[t] \in {scan[t], [scan[t] EXCEPT !.alone = FALSE]}
    BY <1>3 DEF StartScan
  <2> QED
    BY <1>d, <1>k, <2>1, <2>2, <2>3 DEF Reading, At
<1>4. ASSUME NEW s \in Scanners, ScanStep(s) PROVE InHand'
  <2>1. disk' = disk /\ AtWork(s) /\ ~At(s, "rest")
    BY <1>4, StepCaches DEF AtWork, At
  <2>2. PICK rec \in ScanRec : Set(s, rec)
    BY <1>4, <2>1, StepRecords
  <2>3. \A t \in Scanners \ {s} : scan'[t] = scan[t]
    BY <1>r, <2>2, SetFacts
  <2>4. \A t \in Scanners \ {s} : Reading(t)' => Hand(t)'
    BY <1>d, <1>t, <2>1, <2>3, HandKept DEF Reading, At
  <2>5. Reading(s)' => Hand(s)'
    <3>1. ASSUME NEW v \in Vaults, Visit(s, v) PROVE Reading(s)' => Hand(s)'
      <4>1. disk[v] \in Int /\ (There(v) => disk[v] <= Abs(disk[v]))
        BY DEF TypeOK, There, Abs
      <4>2. Reading(s)' => /\ There(v) /\ scan'[s].pc = "read" /\ scan'[s].at = {v}
                           /\ scan'[s].entry.stamp = disk[v]
        BY <3>1, VisitFields DEF Reading, At
      <4> QED
        BY <2>1, <4>1, <4>2 DEF Hand, Fresh, At
    <3>2. CASE Extract(s)
      <4>1. PICK v \in scan[s].at :
              /\ scan[s].pc = "read"
              /\ \/ /\ There(v) /\ disk[v] \notin Damaged /\ scan'[s].pc = "keep"
                    /\ scan'[s].at = scan[s].at /\ scan'[s].entry = scan[s].entry
                 \/ scan'[s].pc = "walk"
        BY <3>2, ExtractFields
      <4>2. CASE scan'[s].pc = "walk"
        BY <4>2 DEF Reading, At
      <4>3. CASE /\ There(v) /\ disk[v] \notin Damaged /\ scan'[s].pc = "keep"
                 /\ scan'[s].at = scan[s].at /\ scan'[s].entry = scan[s].entry
        <5>1. Hand(s)
          BY <4>1 DEF InHand, Reading, At
        <5>2. v \in Vaults /\ scan[s].at = {v} /\ Fresh(v, scan[s].entry.stamp)
          BY <5>1 DEF Hand
        <5>3. Abs(disk[v]) = disk[v]
          BY <4>3, <5>2 DEF There, Abs, TypeOK
        <5>4. Fresh(v, scan[s].entry.stamp)' /\ Sound(v, scan[s].entry.stamp)'
          BY <2>1, <4>3, <5>2, <5>3 DEF Fresh, Sound
        <5> QED
          BY <4>3, <5>2, <5>4 DEF Hand
      <4> QED
        BY <4>1, <4>2, <4>3
    <3>3. CASE Keep(s) \/ Prune(s) \/ Drop(s) \/ Open(s) \/ Dump(s)
      BY <3>3, KeepFields, PruneFields, DropFields, SaveFields DEF Reading, At
    <3> QED
      BY <1>4, <3>1, <3>2, <3>3 DEF ScanStep
  <2> QED
    BY <2>4, <2>5 DEF InHand
<1>5. ASSUME NEW s \in Scanners, OnLibraryResults(s) PROVE InHand'
  <2>1. scan'[s] = Rest /\ \A t \in Scanners \ {s} : scan'[t] = scan[t]
    BY <1>5, <1>r, SetFacts DEF OnLibraryResults
  <2>2. disk' = disk
    BY <1>5 DEF OnLibraryResults
  <2> QED
    BY <1>d, <1>k, <1>r, <2>1, <2>2 DEF Reading, At
<1>6. CASE ClearBegins
  <2>1. \A s \in Scanners :
          LET rec == [scan[s] EXCEPT !.alone = FALSE, !.entry.old = At(s, "keep")] IN
          rec.pc = scan[s].pc /\ rec.at = scan[s].at /\ rec.entry.stamp = scan[s].entry.stamp
    BY <1>r DEF ScanRec, EntryRec
  <2>2. \A s \in Scanners : \/ scan'[s] = Rest
          \/ scan'[s] = [scan[s] EXCEPT !.alone = FALSE, !.entry.old = At(s, "keep")]
    BY <1>6 DEF ClearBegins
  <2>3. disk' = disk
    BY <1>6 DEF ClearBegins
  <2>4. \A s \in Scanners : \/ scan'[s].pc = "rest"
          \/ /\ scan'[s].pc = scan[s].pc /\ scan'[s].at = scan[s].at
             /\ scan'[s].entry.stamp = scan[s].entry.stamp
    BY <1>r, <2>1, <2>2
  <2> QED
    BY <1>d, <1>k, <2>3, <2>4 DEF Reading, At
<1>7. CASE ClearUnlinks
  <2>1. \A s \in Scanners : [scan[s] EXCEPT !.at = Vaults].pc = scan[s].pc
    BY <1>r DEF ScanRec
  <2>2. \A s \in Scanners : scan'[s] = scan[s] \/ (At(s, "dump") /\ scan'[s].pc = "dump")
    BY <1>7, <2>1 DEF ClearUnlinks, At
  <2>3. disk' = disk
    BY <1>7 DEF ClearUnlinks
  <2> QED
    BY <1>d, <1>k, <2>2, <2>3 DEF Reading, At
<1>8. CASE Restart
  BY <1>8, <1>d, <1>k, <1>r DEF Restart, Reading, At
<1> QED
  BY <1>1, <1>2, <1>3, <1>4, <1>5, <1>6, <1>7, <1>8 DEF Next

\* A scan that has found what it had found, on the disk as it was.
LEMMA FoundKept ==
    ASSUME NEW s \in Scanners, Found(s), disk' = disk,
           scan'[s].pc = scan[s].pc,
           scan'[s].left = scan[s].left, scan'[s].hits = scan[s].hits,
           scan'[s].dirs = scan[s].dirs,
           Reading(s) => /\ scan'[s].at = scan[s].at
                         /\ scan'[s].entry.stamp = scan[s].entry.stamp
    PROVE  Found(s)'
<1>1. Due(s)' = Due(s)
  BY DEF Due, OnDisk, There
<1> QED
  BY <1>1 DEF Found, Reading, At

\* A scan's own steps.
LEMMA FoundStep ==
    ASSUME TypeOK, Caches, InHand, NEW s \in Scanners, ScanStep(s), Found(s), disk' = disk,
           scan'[s].pc # "failed"
    PROVE  Found(s)'
<1>r. disk \in [Vaults -> Int]
  BY DEF TypeOK
<1>0. scan'[s].dirs = scan[s].dirs => Due(s)' = Due(s)
  BY DEF Due, OnDisk, There
<1>1. ASSUME NEW v \in Vaults, Visit(s, v) PROVE Found(s)'
  <2>1. /\ scan[s].pc = "walk" /\ v \in scan[s].left /\ scan'[s].left = scan[s].left \ {v}
        /\ scan'[s].dirs = scan[s].dirs
    BY <1>1, VisitFields
  <2>2. DirOf[v] \in scan[s].dirs
    BY <2>1 DEF Found
  <2>3. CASE ~There(v) /\ scan'[s].pc = "walk" /\ scan'[s].hits = scan[s].hits
    <3>1. v \notin Due(s)
      BY <2>3 DEF Due, OnDisk
    <3> QED
      BY <1>0, <2>1, <2>3, <3>1 DEF Found, Reading, At
  <2>4. CASE /\ There(v) /\ Cached(v) /\ scan'[s].pc = "walk"
             /\ scan'[s].hits = scan[s].hits \cup {<<v, cache[v].stamp>>}
    <3>1. cache[v].stamp = disk[v] /\ Abs(disk[v]) = disk[v]
      BY <1>r, <2>4 DEF Cached, There, Abs
    <3>2. disk[v] \notin Damaged
      BY <2>4, <3>1 DEF Caches, Sound, Cached
    <3>3. v \in Due(s)
      BY <2>2, <2>4, <3>2 DEF Due, OnDisk
    <3>4. scan'[s].hits = scan[s].hits \cup {<<v, disk[v]>>}
      BY <2>4, <3>1
    <3>5. \A h \in scan'[s].hits : h[1] \in Due(s) /\ h[2] = disk[h[1]]
      BY <3>3, <3>4 DEF Found
    <3> QED
      BY <1>0, <2>1, <2>4, <3>4, <3>5 DEF Found, Reading, At
  <2>5. CASE /\ There(v) /\ scan'[s].pc = "read" /\ scan'[s].hits = scan[s].hits
             /\ scan'[s].at = {v} /\ scan'[s].entry.stamp = disk[v]
    BY <1>0, <2>1, <2>2, <2>5 DEF Found, Reading, At
  <2> QED
    BY <1>1, <2>3, <2>4, <2>5, VisitFields
<1>2. CASE Extract(s)
  <2>1. PICK v \in scan[s].at :
           /\ scan[s].pc = "read"
           /\ scan'[s].left = scan[s].left /\ scan'[s].hits = scan[s].hits
           /\ scan'[s].dirs = scan[s].dirs
           /\ \/ /\ There(v) /\ disk[v] \notin Damaged /\ scan'[s].pc = "keep"
                 /\ scan'[s].at = scan[s].at /\ scan'[s].entry = scan[s].entry
              \/ /\ ~There(v) \/ disk[v] \in Damaged
                 /\ scan'[s].pc = "walk" /\ scan'[s].at = {}
    BY <1>2, ExtractFields
  <2>2. scan[s].at = {v} /\ v \in Vaults
    BY <2>1 DEF InHand, Hand, Reading, At
  <2>3. DirOf[v] \in scan[s].dirs
    BY <2>1 DEF Found, Reading, At
  <2>4. CASE There(v) /\ disk[v] \notin Damaged /\ scan'[s].pc = "keep"
             /\ scan'[s].at = scan[s].at /\ scan'[s].entry = scan[s].entry
    <3>1. v \in Due(s)
      BY <2>2, <2>3, <2>4 DEF Due, OnDisk
    <3> QED
      BY <1>0, <2>1, <2>2, <2>4, <3>1 DEF Found, Reading, At
  <2>5. CASE (~There(v) \/ disk[v] \in Damaged) /\ scan'[s].pc = "walk"
    <3>1. v \notin Due(s)
      BY <2>5 DEF Due, OnDisk
    <3> QED
      BY <1>0, <2>1, <2>2, <2>5, <3>1 DEF Found, Reading, At
  <2> QED
    BY <2>1, <2>4, <2>5
<1>3. CASE Keep(s)
  <2>1. PICK v \in scan[s].at :
           /\ scan[s].pc = "keep" /\ scan'[s].pc = "walk"
           /\ scan'[s].left = scan[s].left
           /\ scan'[s].dirs = scan[s].dirs
           /\ scan'[s].hits = scan[s].hits \cup {<<v, scan[s].entry.stamp>>}
    BY <1>3, KeepFields
  <2>2. scan[s].at = {v} /\ v \in Vaults
    BY <2>1 DEF InHand, Hand, Reading, At
  <2>3. scan[s].entry.stamp = disk[v] /\ v \in Due(s)
    BY <2>1 DEF Found, Reading, At
  <2>4. \A h \in scan'[s].hits : h[1] \in Due(s) /\ h[2] = disk[h[1]]
    BY <2>1, <2>3 DEF Found
  <2> QED
    BY <1>0, <2>1, <2>2, <2>3, <2>4 DEF Found, Reading, At
<1>4. CASE Prune(s)
  BY <1>0, <1>4, PruneFields DEF Found, Reading, At
<1>5. CASE Drop(s)
  <2>1. /\ scan[s].pc = "drop" /\ scan'[s].pc \in {"drop", "save", "posted"}
        /\ scan'[s].left = scan[s].left /\ scan'[s].hits = scan[s].hits
        /\ scan'[s].dirs = scan[s].dirs
    BY <1>5, DropFields
  <2> QED
    BY <1>0, <2>1 DEF Found, Reading, At
<1>6. CASE Open(s) \/ Dump(s)
  BY <1>0, <1>6, SaveFields DEF Found, Reading, At
<1> QED
  BY <1>1, <1>2, <1>3, <1>4, <1>5, <1>6 DEF ScanStep

LEMMA FindingStep ==
    ASSUME TypeOK, Caches, InHand, Finding, [Next]_vars
    PROVE  Finding'
<1>r. scan \in [Scanners -> ScanRec] /\ Rest \in ScanRec /\ Rest.pc = "rest"
  BY RestType DEF TypeOK, Rest
\* Whoever has found what it had found is as before.
<1> DEFINE Same(s) == /\ scan'[s].pc = scan[s].pc /\ scan'[s].moved = scan[s].moved
                      /\ scan'[s].left = scan[s].left /\ scan'[s].hits = scan[s].hits
                      /\ scan'[s].dirs = scan[s].dirs
                      /\ Reading(s) => /\ scan'[s].at = scan[s].at
                                       /\ scan'[s].entry.stamp = scan[s].entry.stamp
           Finds(s) == scan'[s].pc \notin {"rest", "failed"} /\ ~scan'[s].moved => Found(s)'
<1>s. ASSUME disk' = disk, NEW s \in Scanners, Same(s) PROVE Finds(s)
  BY <1>s, FoundKept DEF Finding
<1>k. ASSUME disk' = disk, \A s \in Scanners : scan'[s].pc = "rest" \/ Same(s) PROVE Finding'
  <2>1. \A s \in Scanners : Finds(s)
    BY <1>s, <1>k
  <2> QED
    BY <2>1 DEF Finding
<1>1. ASSUME NEW v \in Vaults, Touch(v) PROVE Finding'
  <2>1. \A s \in Scanners : scan'[s] = Rest \/ scan'[s] = [scan[s] EXCEPT !.moved = TRUE]
    BY <1>1 DEF Touch
  <2>2. \A s \in Scanners : [scan[s] EXCEPT !.moved = TRUE].moved
    BY <1>r DEF ScanRec
  <2>3. \A s \in Scanners : scan'[s].pc = "rest" \/ scan'[s].moved
    BY <1>r, <2>1, <2>2
  <2> QED
    BY <2>3 DEF Finding
<1>2. CASE (\E d \in Dirs : ChangeDirs(d)) \/ ClearLog \/ ClearMemory \/ ClearConfig
           \/ UNCHANGED vars
  <2>1. UNCHANGED <<disk, scan>>
    BY <1>2 DEF ChangeDirs, ClearLog, ClearMemory, ClearConfig, vars
  <2> QED
    BY <1>k, <2>1
<1>3. ASSUME NEW s \in Scanners, StartScan(s) PROVE Finding'
  <2>1. \A t \in Scanners : LET rec == [scan[t] EXCEPT !.alone = FALSE] IN
          /\ rec.pc = scan[t].pc /\ rec.at = scan[t].at /\ rec.entry = scan[t].entry
          /\ rec.left = scan[t].left /\ rec.hits = scan[t].hits /\ rec.dirs = scan[t].dirs
          /\ rec.moved = scan[t].moved
    BY <1>r DEF ScanRec
  <2>2. /\ scan'[s].pc = "walk" /\ scan'[s].dirs = dirs /\ scan'[s].hits = {}
        /\ scan'[s].left = {v \in Vaults : DirOf[v] \in dirs}
    BY <1>3, <1>r DEF StartScan, Rest
  <2>3. \A t \in Scanners \ {s} : scan'[t] \in {scan[t], [scan[t] EXCEPT !.alone = FALSE]}
    BY <1>3 DEF StartScan
  <2>4. disk' = disk /\ dirs' = dirs
    BY <1>3 DEF StartScan
  <2>5. Found(s)'
    BY <2>2, <2>4 DEF Found, Due, OnDisk, Reading, At
  <2>6. \A t \in Scanners \ {s} : Finds(t)
    <3> TAKE t \in Scanners \ {s}
    <3>1. Same(t)
      BY <2>1, <2>3
    <3> QED
      BY <1>s, <2>4, <3>1
  <2> QED
    BY <2>5, <2>6 DEF Finding
<1>4. ASSUME NEW s \in Scanners, ScanStep(s) PROVE Finding'
  <2>1. disk' = disk /\ AtWork(s) /\ ~At(s, "rest")
    BY <1>4, StepCaches DEF AtWork, At
  <2>2. PICK rec \in ScanRec : /\ Set(s, rec)
                               /\ rec.moved = scan[s].moved \/ rec.pc = "failed"
    BY <1>4, <2>1, StepRecords
  <2>3. scan'[s] = rec /\ \A t \in Scanners \ {s} : scan'[t] = scan[t]
    BY <1>r, <2>2, SetFacts
  <2>4. \A t \in Scanners \ {s} : Finds(t)
    BY <1>s, <2>1, <2>3
  <2>5. Finds(s)
    <3> SUFFICES ASSUME scan'[s].pc # "failed", ~scan'[s].moved PROVE Found(s)'
      OBVIOUS
    <3>1. Found(s)
      BY <2>1, <2>2, <2>3 DEF Finding, At, AtWork
    <3> QED
      BY <1>4, <2>1, <3>1, FoundStep
  <2> QED
    BY <2>4, <2>5 DEF Finding
<1>5. ASSUME NEW s \in Scanners, OnLibraryResults(s) PROVE Finding'
  <2>1. scan'[s] = Rest /\ \A t \in Scanners \ {s} : scan'[t] = scan[t]
    BY <1>5, <1>r, SetFacts DEF OnLibraryResults
  <2>2. disk' = disk
    BY <1>5 DEF OnLibraryResults
  <2> QED
    BY <1>k, <1>r, <2>1, <2>2
<1>6. CASE ClearBegins
  <2>1. \A t \in Scanners :
          LET rec == [scan[t] EXCEPT !.alone = FALSE, !.entry.old = At(t, "keep")] IN
          /\ rec.pc = scan[t].pc /\ rec.at = scan[t].at
          /\ rec.entry.stamp = scan[t].entry.stamp
          /\ rec.left = scan[t].left /\ rec.hits = scan[t].hits /\ rec.dirs = scan[t].dirs
          /\ rec.moved = scan[t].moved
    BY <1>r DEF ScanRec, EntryRec
  <2>2. \A t \in Scanners : \/ scan'[t] = Rest
          \/ scan'[t] = [scan[t] EXCEPT !.alone = FALSE, !.entry.old = At(t, "keep")]
    BY <1>6 DEF ClearBegins
  <2>3. disk' = disk
    BY <1>6 DEF ClearBegins
  <2>4. \A t \in Scanners : scan'[t].pc = "rest" \/ Same(t)
    BY <1>r, <2>1, <2>2
  <2> QED
    BY <1>k, <2>3, <2>4
<1>7. CASE ClearUnlinks
  <2>1. \A t \in Scanners : LET rec == [scan[t] EXCEPT !.at = Vaults] IN
          /\ rec.pc = scan[t].pc /\ rec.left = scan[t].left /\ rec.hits = scan[t].hits
          /\ rec.dirs = scan[t].dirs /\ rec.moved = scan[t].moved
    BY <1>r DEF ScanRec
  <2>2. \A t \in Scanners :
          \/ scan'[t] = scan[t]
          \/ scan[t].pc = "dump" /\ scan'[t] = [scan[t] EXCEPT !.at = Vaults]
    BY <1>7 DEF ClearUnlinks, At
  <2>3. disk' = disk
    BY <1>7 DEF ClearUnlinks
  <2>4. \A t \in Scanners : Same(t)
    BY <2>1, <2>2 DEF Reading, At
  <2> QED
    BY <1>k, <2>3, <2>4
<1>8. CASE Restart
  BY <1>8, <1>r DEF Restart, Finding
<1> QED
  BY <1>1, <1>2, <1>3, <1>4, <1>5, <1>6, <1>7, <1>8 DEF Next

-----------------------------------------------------------------------------
(* Theorems *)

LEMMA InvInitially == Init => Inv
<1> SUFFICES ASSUME Init PROVE Inv
  OBVIOUS
<1>1. TypeOK
  BY TypeInitially
<1>2. \A s \in Scanners : scan[s] = Rest
  BY DEF Init
<1>3. UiFree /\ older = {} /\ cache = NoEntries /\ cacheFile = NoEntries
  BY DEF Init, UiFree
<1>4. ForgetInv
  BY <1>2, <1>3, OldFacts DEF ForgetInv, NoneOverlaps, NewInHand, Cleared, Rest
<1>5. AloneInv
  BY <1>2, <1>3 DEF AloneInv, Company, Doomed, ScanFailsNotAlone, Rest, At, AtWork
<1>6. ExactInv
  BY <1>2, <1>3 DEF ExactInv, Caches, InHand, Finding, Rest, Reading, At, NoEntries
<1> QED
  BY <1>1, <1>4, <1>5, <1>6 DEF Inv

LEMMA InvAlways == Spec => []Inv
<1>1. Inv /\ [Next]_vars => Inv'
  BY TypeStep, ForgetStep, AloneStep, CachesStep, HandStep, FindingStep DEF Inv, ExactInv
<1> QED
  BY InvInitially, <1>1, PTL DEF Spec

\* Type correctness, for any vaults, directories and threads; a scan that is over
\* keeps nothing.
THEOREM TypeCorrect == Spec => []TypeOK
<1>1. Inv => TypeOK
  BY DEF Inv
<1> QED
  BY <1>1, InvAlways, PTL

\* What was remembered before a clearing is in no store afterwards, and comes back
\* with no start, whatever other stores refused and wherever the program was
\* stopped; the cache, unless a scan was running (clear_local_traces).
THEOREM ClearingForgets == Spec => []ClearForgets
<1>1. Inv => ClearForgets
  BY DEF Inv, ForgetInv, Cleared, ClearForgets, UiFree
<1> QED
  BY <1>1, InvAlways, PTL

\* A scan fails only beside another or a clearing (keys_to_remove).
THEOREM FailsNotAlone == Spec => []ScanFailsNotAlone
<1>1. Inv => ScanFailsNotAlone
  BY DEF Inv, AloneInv
<1> QED
  BY <1>1, InvAlways, PTL

\* A scan shows exactly the vaults that are there, whatever was cached, and whatever
\* other scans and clearings did to the cache meanwhile (scan_directories).
THEOREM ScansAreExact == Spec => []ScanExact
<1>1. Inv => ScanExact
  <2> SUFFICES ASSUME Inv, NEW s \in Scanners, At(s, "posted"), ~scan[s].moved
               PROVE  Shown(s) = {<<v, disk[v]>> : v \in
                         {u \in OnDisk : /\ DirOf[u] \in scan[s].dirs \cap dirs
                                         /\ disk[u] \notin Damaged}}
    BY DEF ScanExact
  <2>1. Found(s) /\ scan[s].left = {} /\ ~Reading(s)
    BY DEF Inv, ExactInv, Finding, Found, Reading, At
  <2>2. \A u \in Due(s) : <<u, disk[u]>> \in scan[s].hits
    BY <2>1 DEF Found
  <2>3. \A h \in scan[s].hits : h = <<h[1], disk[h[1]]>> /\ h[1] \in Due(s)
    BY <2>1 DEF Found, Inv, TypeOK, ScanRec
  <2>4. {u \in OnDisk : DirOf[u] \in scan[s].dirs \cap dirs /\ disk[u] \notin Damaged}
          = {u \in Due(s) : DirOf[u] \in dirs}
    BY DEF Due
  <2> QED
    BY <2>2, <2>3, <2>4 DEF Shown
<1> QED
  BY <1>1, InvAlways, PTL
=============================================================================
