---------------------------- MODULE VaultProofs -----------------------------
(***************************************************************************)
(* Proofs about the vault file: RekeyVault, which replaces it, and then    *)
(* VaultLayout with SizeLadder, which lay it out.                          *)
(*                                                                         *)
(* RekeyVault: for every set of passwords, workers and inodes, every body  *)
(* and header length.  TypeOK needs no more than that a worker that holds  *)
(* an open file holds an inode (Handles).  The safety of the vault's       *)
(* content needs one fact about the surroundings: the screens' guard       *)
(* admits one worker at a time, from its start until it has posted its     *)
(* outcome (Exclusive).  TLC finds what happens without, with              *)
(* Exclusive = FALSE in MCRekeyVault.cfg.                                  *)
(*                                                                         *)
(* VaultLayout: for every ladder, and all sizes and hashes.                *)
(***************************************************************************)
EXTENDS RekeyVault, VaultLayout, TLAPS, FiniteSetTheorems

\* A worker that is about to read or write through a handle holds one.
Handles ==
    \A w \in Workers :
        /\ worker[w].pc = "open" => worker[w].src \in Inodes
        /\ worker[w].pc = "copy" => worker[w].dst \in Inodes
        /\ worker[w].pc = "install" => worker[w].dst \in Inodes

TypeInv == TypeOK /\ Handles

LEMMA IdleType == \A res \in Results : Idle(res) \in WorkerRec
BY RekeyAssumption DEF Idle, WorkerRec, Results, Stages, NoHeader, Header, Salts, Empty,
   File, Version

\* A worker's record after the steps that change several of its fields.
LEMMA FinishType ==
    ASSUME NEW r \in WorkerRec, NEW res \in Results
    PROVE  LET q == [r EXCEPT !.pc = "cleanup", !.result = res]
           IN  q \in WorkerRec /\ q.pc = "cleanup"
BY DEF WorkerRec, Stages

LEMMA OpenType ==
    ASSUME NEW r \in WorkerRec, NEW i \in Inodes, NEW h \in Header
    PROVE  /\ [r EXCEPT !.pc = "open", !.src = i, !.hdr = h] \in WorkerRec
           /\ [r EXCEPT !.pc = "open", !.src = i, !.hdr = h].pc = "open"
           /\ [r EXCEPT !.pc = "open", !.src = i, !.hdr = h].src = i
BY DEF WorkerRec, Stages

LEMMA CopyType ==
    ASSUME NEW r \in WorkerRec, NEW i \in Inodes,
           NEW n \in 0..Chunks, NEW p \in 0..Chunks
    PROVE  /\ [r EXCEPT !.pc = "copy", !.dst = i, !.pos = p, !.size = n] \in WorkerRec
           /\ [r EXCEPT !.pc = "copy", !.dst = i, !.pos = p, !.size = n].pc = "copy"
           /\ [r EXCEPT !.pc = "copy", !.dst = i, !.pos = p, !.size = n].dst = i
BY DEF WorkerRec, Stages

LEMMA InstallType ==
    ASSUME NEW r \in WorkerRec, NEW i \in Inodes
    PROVE  /\ [r EXCEPT !.pc = "install", !.dst = i] \in WorkerRec
           /\ [r EXCEPT !.pc = "install", !.dst = i].pc = "install"
           /\ [r EXCEPT !.pc = "install", !.dst = i].dst = i
BY DEF WorkerRec, Stages

\* encrypt_hidden_vault's file is a file.
LEMMA NewVaultType == \A p \in Passwords : NewVault(p) \in File
BY RekeyAssumption DEF NewVault, File, Header, Salts

LEMMA EmptyType == Empty \in File
BY RekeyAssumption DEF Empty, NoHeader, File, Header, Salts

\* What a copy that broke off leaves is a file, with the header or none.
LEMMA CutShortType ==
    ASSUME NEW f \in File, NEW g \in CutShort(f)
    PROVE  g \in File /\ g.hdr.main \in {f.hdr.main, NoPw}
<1>1. CASE g = Empty
  BY <1>1, EmptyType DEF Empty, NoHeader
<1>2. CASE \E n \in 0..Chunks : g = [f EXCEPT !.body = n]
  BY <1>2 DEF File
<1> QED
  BY <1>1, <1>2 DEF CutShort

-----------------------------------------------------------------------------
LEMMA TypeInitially == Init => TypeInv
<1> SUFFICES ASSUME Init PROVE TypeInv
  OBVIOUS
<1>1. dir \in [{"vault", "tmp"} -> Inodes \cup {0}] /\ dir["vault"] # 0
  BY RekeyAssumption DEF Init
<1>2. disk \in [Inodes -> File]
  BY NewVaultType, EmptyType DEF Init
<1>3. worker \in [Workers -> WorkerRec] /\ Handles
  BY IdleType DEF Init, Results, Idle, Handles
<1> QED
  BY <1>1, <1>2, <1>3 DEF Init, TypeInv, TypeOK

LEMMA TypeStep == TypeInv /\ [Next]_vars => TypeInv'
<1> SUFFICES ASSUME TypeInv, [Next]_vars PROVE TypeInv'
  OBVIOUS
<1> USE RekeyAssumption DEF TypeInv, TypeOK, Handles
<1>a. VaultFile \in File /\ \A w \in Workers : worker[w] \in WorkerRec
  BY DEF VaultFile
<1>b. Empty \in File /\ NoPw \in Passwords \cup {NoPw}
  BY DEF Empty, NoHeader, File, Header, Salts
<1>c. ASSUME NEW w \in Workers, NEW r \in WorkerRec, Go(w, r),
             r.pc = "open" => r.src \in Inodes,
             r.pc = "copy" => r.dst \in Inodes,
             r.pc = "install" => r.dst \in Inodes
      PROVE  worker' \in [Workers -> WorkerRec] /\ Handles'
  BY <1>c DEF Go
<1>d. ASSUME NEW w \in Workers, NEW res \in Results, Finish(w, res)
      PROVE  worker' \in [Workers -> WorkerRec] /\ Handles'
  <2> DEFINE r == [worker[w] EXCEPT !.pc = "cleanup", !.result = res]
  <2>1. r \in WorkerRec /\ r.pc = "cleanup"
    BY <1>a, FinishType
  <2> QED
    BY <1>c, <1>d, <2>1 DEF Finish
<1>e. ASSUME NEW w \in Workers, NEW res \in Results, Go(w, Idle(res))
      PROVE  worker' \in [Workers -> WorkerRec] /\ Handles'
  BY <1>c, <1>e, IdleType DEF Idle
<1>1. ASSUME NEW w \in Workers, SaveVersion(w) PROVE TypeInv'
  <2> DEFINE r == [worker[w] EXCEPT !.pc = "auth"]
  <2>1. r \in WorkerRec /\ r.pc = "auth" /\ Go(w, r)
    BY <1>a, <1>1 DEF SaveVersion, WorkerRec, Stages
  <2>2. versions' \subseteq Version
    <3>1. CASE versions' = versions
      BY <3>1
    <3>2. CASE versions' \in SUBSET (versions \cup {[file |-> VaultFile, cut |-> cut]})
      BY <3>2, <1>a DEF Version
    <3>3. CASE \E f \in CutShort(VaultFile) :
                 versions' = versions \cup {[file |-> f, cut |-> TRUE]}
      <4>1. PICK f \in CutShort(VaultFile) :
               versions' = versions \cup {[file |-> f, cut |-> TRUE]}
        BY <3>3
      <4>2. f \in File
        BY <1>a, CutShortType
      <4>3. [file |-> f, cut |-> TRUE] \in Version
        BY <4>2 DEF Version
      <4> QED
        BY <4>1, <4>3
    <3>4. \/ versions' = versions
          \/ versions' \in SUBSET (versions \cup {[file |-> VaultFile, cut |-> cut]})
          \/ \E f \in CutShort(VaultFile) :
                 versions' = versions \cup {[file |-> f, cut |-> TRUE]}
      <4> HIDE DEF TypeInv, TypeOK, Handles
      <4> QED
        BY <1>1 DEF SaveVersion
    <3> QED
      BY <3>1, <3>2, <3>3, <3>4
  <2> QED
    BY <1>1, <1>c, <2>1, <2>2 DEF SaveVersion
<1>2. ASSUME NEW w \in Workers, Authenticate(w) PROVE TypeInv'
  <2> DEFINE r == [worker[w] EXCEPT !.pc = "open", !.src = dir["vault"],
                                    !.hdr = VaultFile.hdr]
  <2>0. worker[w] \in WorkerRec /\ dir["vault"] \in Inodes /\ VaultFile.hdr \in Header
    BY <1>a DEF File
  <2>1. r \in WorkerRec /\ r.pc = "open" /\ r.src \in Inodes
    <3> HIDE DEF TypeInv, TypeOK, Handles
    <3>1. r \in WorkerRec
      BY <2>0, OpenType
    <3>2. r.pc = "open" /\ r.src = dir["vault"]
      BY <2>0 DEF WorkerRec
    <3> QED
      BY <2>0, <3>1, <3>2
  <2>2. worker' \in [Workers -> WorkerRec] /\ Handles'
    BY <1>2, <1>c, <1>d, <2>1 DEF Authenticate, Results
  <2> QED
    BY <1>2, <2>2 DEF Authenticate
<1>3. ASSUME NEW w \in Workers, NEW jsonLen \in {HdrLen - 1, HdrLen, HdrLen + 1},
             OpenTmp(w, jsonLen)
      PROVE  TypeInv'
  <2>1. CASE UNCHANGED <<dir, disk>> /\ Finish(w, "failed")
    BY <1>3, <1>d, <2>1 DEF OpenTmp, Results
  <2>2. CASE ~(UNCHANGED <<dir, disk>> /\ Finish(w, "failed"))
    <3> DEFINE h == RekeyedHeader(worker[w].hdr, worker[w].new, jsonLen)
               r(i) == [worker[w] EXCEPT !.pc = "copy", !.dst = i, !.pos = 0,
                                         !.size = PayloadSize(worker[w].src)]
    <3>1. PICK i \in Inodes : /\ dir' = [dir EXCEPT !["tmp"] = i]
                              /\ disk' = [disk EXCEPT ![i] = [hdr |-> h, body |-> 0]]
                              /\ Go(w, r(i))
      BY <1>3, <2>2 DEF OpenTmp
    <3>2. h \in Header
      BY <1>a DEF RekeyedHeader, WorkerRec, Header
    <3>3. r(i) \in WorkerRec /\ r(i).pc = "copy" /\ r(i).dst \in Inodes
      <4>1. PayloadSize(worker[w].src) \in 0..Chunks
        BY <1>3 DEF OpenTmp, PayloadSize, File
      <4>2. 0 \in 0..Chunks
        OBVIOUS
      <4> QED
        <5> HIDE DEF TypeInv, TypeOK, Handles
        <5> DEFINE n == PayloadSize(worker[w].src)
        <5>1. worker[w] \in WorkerRec /\ n \in 0..Chunks /\ 0 \in 0..Chunks
          BY <4>1, <4>2, <1>a
        <5> HIDE DEF n
        <5>2. [worker[w] EXCEPT !.pc = "copy", !.dst = i, !.pos = 0, !.size = n] \in WorkerRec
          BY <5>1, CopyType
        <5>3. LET q == [worker[w] EXCEPT !.pc = "copy", !.dst = i, !.pos = 0, !.size = n]
              IN  q.pc = "copy" /\ q.dst = i
          BY <5>1 DEF WorkerRec
        <5> QED
          BY <5>2, <5>3 DEF n
    <3>4. disk' \in [Inodes -> File]
      BY <3>1, <3>2 DEF File
    <3>5. dir' \in [{"vault", "tmp"} -> Inodes \cup {0}] /\ dir'["vault"] # 0
      BY <3>1
    <3> QED
      BY <1>3, <1>c, <3>1, <3>3, <3>4, <3>5 DEF OpenTmp
  <2> QED
    BY <2>1, <2>2
<1>4. ASSUME NEW w \in Workers, CopyChunk(w) PROVE TypeInv'
  <2>1. worker[w] \in WorkerRec /\ worker[w].pos + 1 \in 0..Chunks /\ worker[w].dst \in Inodes
    BY <1>4, <1>a DEF CopyChunk, WorkerRec
  <2>2. [worker[w] EXCEPT !.pc = "commit"] \in WorkerRec
    BY <2>1 DEF WorkerRec, Stages
  <2>3. /\ [worker[w] EXCEPT !.pos = worker[w].pos + 1] \in WorkerRec
        /\ [worker[w] EXCEPT !.pos = worker[w].pos + 1].pc = worker[w].pc
        /\ [worker[w] EXCEPT !.pos = worker[w].pos + 1].dst = worker[w].dst
    BY <2>1 DEF WorkerRec
  <2>4. worker' \in [Workers -> WorkerRec] /\ Handles'
    <3>1. CASE Go(w, [worker[w] EXCEPT !.pos = worker[w].pos + 1])
      BY <3>1, <1>4, <1>c, <2>1, <2>3 DEF CopyChunk
    <3>2. CASE Go(w, [worker[w] EXCEPT !.pc = "commit"])
      BY <3>2, <1>c, <2>1, <2>2 DEF WorkerRec
    <3>3. CASE \E res \in Results : Finish(w, res)
      BY <3>3, <1>d
    <3> QED
      BY <1>4, <3>1, <3>2, <3>3 DEF CopyChunk, Results
  <2>5. disk' \in [Inodes -> File]
    BY <1>4, <2>1 DEF CopyChunk, File
  <2> QED
    BY <1>4, <2>4, <2>5 DEF CopyChunk
<1>5. ASSUME NEW w \in Workers, CopyDone(w) PROVE TypeInv'
  <2>1. [worker[w] EXCEPT !.pc = "commit"] \in WorkerRec
    BY <1>a DEF WorkerRec, Stages
  <2>2. worker' \in [Workers -> WorkerRec] /\ Handles'
    BY <1>5, <1>a, <1>c, <2>1 DEF CopyDone, WorkerRec
  <2> QED
    BY <1>5, <2>2 DEF CopyDone
<1>j. ASSUME NEW w \in Workers, NEW p \in {"record", "report"},
             Go(w, [worker[w] EXCEPT !.pc = p])
      PROVE  worker' \in [Workers -> WorkerRec] /\ Handles'
  <2> DEFINE r == [worker[w] EXCEPT !.pc = p]
  <2>1. r \in WorkerRec /\ r.pc = p
    BY <1>a DEF WorkerRec, Stages
  <2> HIDE DEF r
  <2> QED
    BY <1>c, <1>j, <2>1 DEF r
<1>6. ASSUME NEW w \in Workers, Commit(w) PROVE TypeInv'
  <2>1. worker' \in [Workers -> WorkerRec] /\ Handles'
    BY <1>6, <1>d, <1>j DEF Commit, Results
  <2> QED
    BY <1>6, <2>1 DEF Commit
<1>17. ASSUME NEW w \in Workers, Record(w) PROVE TypeInv'
  <2>1. worker' \in [Workers -> WorkerRec] /\ Handles'
    BY <1>17, <1>d DEF Record, Results
  <2> QED
    BY <1>17, <2>1 DEF Record
<1>18. ASSUME NEW w \in Workers, Report(w) PROVE TypeInv'
  <2>1. worker' \in [Workers -> WorkerRec] /\ Handles'
    BY <1>18, <1>e DEF Report, Results
  <2> QED
    BY <1>18, <2>1 DEF Report
<1>7. ASSUME NEW w \in Workers, Cleanup(w) PROVE TypeInv'
  <2>1. worker' \in [Workers -> WorkerRec] /\ Handles'
    BY <1>7, <1>a, <1>e DEF Cleanup, WorkerRec
  <2> QED
    BY <1>7, <2>1 DEF Cleanup
<1>8. ASSUME NEW w \in Workers, CopyVersion(w) PROVE TypeInv'
  <2>1. CASE UNCHANGED disk /\ Go(w, Idle("failed"))
    BY <1>8, <2>1, <1>e DEF CopyVersion, Results
  <2>2. CASE ~(UNCHANGED disk /\ Go(w, Idle("failed")))
    <3>1. PICK i \in Inodes : /\ disk' = [disk EXCEPT ![i] = worker[w].ver.file]
                              /\ Go(w, [worker[w] EXCEPT !.pc = "install", !.dst = i])
      BY <1>8, <2>2 DEF CopyVersion
    <3>2. /\ [worker[w] EXCEPT !.pc = "install", !.dst = i] \in WorkerRec
          /\ [worker[w] EXCEPT !.pc = "install", !.dst = i].pc = "install"
          /\ [worker[w] EXCEPT !.pc = "install", !.dst = i].dst \in Inodes
      <4> HIDE DEF TypeInv, TypeOK, Handles
      <4> QED
        BY <1>a, InstallType
    <3>3. disk' \in [Inodes -> File]
      BY <3>1, <1>a DEF WorkerRec, Version
    <3> QED
      BY <1>8, <1>c, <3>1, <3>2, <3>3 DEF CopyVersion
  <2> QED
    BY <2>1, <2>2
<1>9. ASSUME NEW w \in Workers, InstallVersion(w) PROVE TypeInv'
  <2>1. worker' \in [Workers -> WorkerRec] /\ Handles'
    BY <1>9, <1>e, <1>j DEF InstallVersion, Results
  <2>2. dir' \in [{"vault", "tmp"} -> Inodes \cup {0}] /\ dir'["vault"] # 0
    BY <1>9 DEF InstallVersion
  <2>3. cut' \in BOOLEAN
    BY <1>9, <1>a DEF InstallVersion, WorkerRec, Version
  <2> QED
    BY <1>9, <2>1, <2>2, <2>3 DEF InstallVersion
<1>10. ASSUME NEW w \in Workers, NEW old \in Passwords, NEW new \in Passwords,
              StartRekey(w, old, new)
       PROVE  TypeInv'
  <2> DEFINE r == [Idle("none") EXCEPT !.pc = "save", !.old = old, !.new = new]
  <2>1. r \in WorkerRec /\ r.pc = "save"
    BY IdleType DEF WorkerRec, Stages, Results, Idle
  <2>2. worker' \in [Workers -> WorkerRec] /\ Handles'
    BY <1>10, <1>c, <2>1 DEF StartRekey
  <2> QED
    BY <1>10, <2>2 DEF StartRekey
<1>11. ASSUME NEW w \in Workers, NEW v \in versions, StartReplaceCurrent(w, v)
       PROVE  TypeInv'
  <2> DEFINE r == [Idle("none") EXCEPT !.pc = "restore", !.ver = v]
  <2>1. r \in WorkerRec /\ r.pc = "restore"
    BY IdleType DEF WorkerRec, Stages, Results, Idle
  <2>2. worker' \in [Workers -> WorkerRec] /\ Handles'
    BY <1>11, <1>c, <2>1 DEF StartReplaceCurrent
  <2> QED
    BY <1>11, <2>2 DEF StartReplaceCurrent
<1>12. CASE \E v \in versions : DropVersion(v)
  BY <1>12 DEF DropVersion
<1>13. CASE ToggleVersioning
  BY <1>13 DEF ToggleVersioning
<1>14. CASE RequestClose \/ Restart
  BY <1>14 DEF RequestClose, Restart
<1>15. CASE Crash
  <2>1. worker' \in [Workers -> WorkerRec] /\ Handles'
    BY <1>15, IdleType DEF Crash, Results, Idle
  <2> QED
    BY <1>15, <2>1 DEF Crash
<1>16. CASE UNCHANGED vars
  BY <1>16 DEF vars
<1> QED
  BY <1>1, <1>2, <1>3, <1>4, <1>5, <1>6, <1>7, <1>8, <1>9, <1>10, <1>11, <1>12,
     <1>13, <1>14, <1>15, <1>16, <1>17, <1>18 DEF Next, WorkerStep

\* The variables keep their types, whatever the interleaving (all of the
\* workers' steps, the user's requests, crash and restart).
THEOREM TypeCorrect == Spec => []TypeOK
<1>1. TypeInv => TypeOK
  BY DEF TypeInv
<1> QED
  BY TypeInitially, TypeStep, <1>1, PTL DEF Spec

-----------------------------------------------------------------------------
(* Safety of the content.  The inductive invariant says what each stage of *)
(* a worker may rely on while it is the only one at work, an earlier one's *)
(* finally clause still to come.                                           *)

\* A whole vault with both of the other ways in.
Good(f) ==
    /\ Whole(f)
    /\ f.hdr.hidden_salt = "own"
    /\ f.hdr.recovery_envelope

\* Good, unless it goes back to a copy that broke off.
Sound(v) == ~v.cut => Good(v.file)

\* At most one worker is at work; others may still have to clean up.
OneWorker == \A v, w \in Busy : v = w

Rekeying(r) ==
    /\ r.pc \in {"save", "auth", "open", "copy", "commit"} => r.new \in Passwords
    /\ r.pc \in {"open", "copy", "commit"} =>
          r.src = dir["vault"] /\ r.hdr = VaultFile.hdr /\ r.hdr.main = r.old
    /\ r.pc \in {"copy", "commit"} =>
          /\ r.size = VaultFile.body
          /\ r.dst \in Inodes /\ r.dst # dir["vault"] /\ dir["tmp"] \in {0, r.dst}
          /\ disk[r.dst].hdr = [VaultFile.hdr EXCEPT !.main = r.new]
          /\ disk[r.dst].body = r.pos
    /\ r.pc = "commit" => r.pos = VaultFile.body

Restoring(r) ==
    /\ r.pc \in {"restore", "install"} => Sound(r.ver)
    /\ r.pc = "install" =>
          /\ r.dst \in Inodes /\ r.dst # dir["vault"] /\ r.dst # dir["tmp"]
          /\ disk[r.dst] = r.ver.file

Stage == \A w \in Workers : Rekeying(worker[w]) /\ Restoring(worker[w])

Content ==
    /\ ~cut => Good(VaultFile)
    /\ dir["tmp"] # dir["vault"]
    /\ \A v \in versions : Sound(v)

SafeInv == TypeInv /\ OneWorker /\ Stage /\ Content

-----------------------------------------------------------------------------
\* The other workers are idle or about to be.
Done(v) == worker[v].pc \in {"idle", "cleanup"}

\* A step of the only worker at work leaves the others done.
LEMMA Alone ==
    ASSUME worker \in [Workers -> WorkerRec], NEW w \in Workers, NEW r,
           \A v \in Workers \ {w} : Done(v), Go(w, r)
    PROVE  /\ worker'[w] = r
           /\ OneWorker'
           /\ \A v \in Workers \ {w} : Done(v)'
BY DEF Go, OneWorker, Busy, Done

\* The invariant of the stages is about the one worker at work.
LEMMA StageOf ==
    ASSUME NEW w \in Workers,
           \A v \in Workers \ {w} : Done(v)',
           Rekeying(worker[w])', Restoring(worker[w])'
    PROVE  Stage'
BY DEF Stage, Rekeying, Restoring, Done

LEMMA SafeInitially == Init => SafeInv
<1> SUFFICES ASSUME Init PROVE SafeInv
  OBVIOUS
<1>1. TypeInv
  BY TypeInitially
<1>2. OneWorker /\ Stage
  BY DEF Init, OneWorker, Busy, Stage, Rekeying, Restoring, Idle
<1>3. Content
  BY RekeyAssumption DEF Init, Content, Good, Whole, VaultFile, NewVault
<1> QED
  BY <1>1, <1>2, <1>3 DEF SafeInv

LEMMA SafeStep ==
    ASSUME Exclusive
    PROVE  SafeInv /\ [Next]_vars => SafeInv'
<1> SUFFICES ASSUME SafeInv, [Next]_vars PROVE OneWorker' /\ Stage' /\ Content'
  BY TypeStep DEF SafeInv
<1> USE RekeyAssumption
<1>a. /\ dir \in [{"vault", "tmp"} -> Inodes \cup {0}]
      /\ dir["vault"] \in Inodes
      /\ disk \in [Inodes -> File]
      /\ worker \in [Workers -> WorkerRec]
      /\ versions \subseteq Version
      /\ VaultFile \in File
  BY DEF SafeInv, TypeInv, TypeOK, VaultFile
<1>b. /\ ~cut => Good(VaultFile)
      /\ dir["tmp"] # dir["vault"]
      /\ \A v \in versions : Sound(v)
  BY DEF SafeInv, Content
<1>c. \A w \in Workers : Rekeying(worker[w]) /\ Restoring(worker[w])
  BY DEF SafeInv, Stage
<1>d. ASSUME NEW w \in Workers, w \in Busy
      PROVE  \A v \in Workers \ {w} : Done(v)
  BY <1>d DEF SafeInv, OneWorker, Busy, Done
<1>e. ASSUME UNCHANGED <<dir, disk, versions, cut>>
      PROVE  Content'
  BY <1>b, <1>e DEF Content, VaultFile, Good, Whole, Sound
\* A worker that has ended its work, or is about to.
<1>f. ASSUME NEW w \in Workers, NEW r, r.pc \in {"idle", "cleanup"}, Go(w, r),
             \A v \in Workers \ {w} : Done(v)
      PROVE  OneWorker' /\ Stage'
  <2>1. /\ worker'[w] = r
        /\ OneWorker'
        /\ \A v \in Workers \ {w} : Done(v)'
    BY <1>a, <1>f, Alone
  <2>2. Rekeying(worker[w])' /\ Restoring(worker[w])'
    BY <1>f, <2>1 DEF Rekeying, Restoring
  <2> QED
    BY <2>1, <2>2, StageOf
<1>g. ASSUME NEW w \in Workers, w \in Busy, NEW res, Finish(w, res)
      PROVE  OneWorker' /\ Stage'
  <2> DEFINE r == [worker[w] EXCEPT !.pc = "cleanup", !.result = res]
  <2>1. r.pc \in {"idle", "cleanup"}
    BY <1>a DEF WorkerRec
  <2>2. Go(w, r)
    BY <1>g DEF Finish
  <2>3. \A v \in Workers \ {w} : Done(v)
    BY <1>d, <1>g
  <2> HIDE DEF r
  <2> QED
    BY <1>f, <2>1, <2>2, <2>3
<1>i. ASSUME NEW w \in Workers, w \in Busy, NEW res, Go(w, Idle(res))
      PROVE  OneWorker' /\ Stage'
  <2>1. Idle(res).pc \in {"idle", "cleanup"}
    BY DEF Idle
  <2>2. \A v \in Workers \ {w} : Done(v)
    BY <1>d, <1>i
  <2> QED
    BY <1>f, <1>i, <2>1, <2>2
<1>1. ASSUME NEW w \in Workers, SaveVersion(w)
      PROVE  OneWorker' /\ Stage' /\ Content'
  <2> DEFINE r == [worker[w] EXCEPT !.pc = "auth"]
  <2>1. /\ worker'[w] = r
        /\ OneWorker'
        /\ \A v \in Workers \ {w} : Done(v)'
    BY <1>1, <1>a, <1>d, Alone DEF SaveVersion, Busy
  <2>2. Rekeying(worker[w])' /\ Restoring(worker[w])'
    <3>1. worker[w].pc = "save" /\ worker[w].new \in Passwords
      BY <1>1, <1>c DEF SaveVersion, Rekeying
    <3>2. r.pc = "auth" /\ r.new = worker[w].new
      BY <1>a DEF WorkerRec
    <3> HIDE DEF r
    <3> QED
      BY <2>1, <3>1, <3>2 DEF Rekeying, Restoring
  <2>3. \A v \in versions' : Sound(v)
    BY <1>1, <1>b DEF SaveVersion, Sound
  <2>4. Content'
    BY <1>1, <1>b, <2>3 DEF SaveVersion, Content, VaultFile, Good, Whole, Sound
  <2> QED
    BY <2>1, <2>2, <2>4, StageOf
<1>2. ASSUME NEW w \in Workers, Authenticate(w)
      PROVE  OneWorker' /\ Stage' /\ Content'
  <2>1. CASE \E res \in Results : Finish(w, res)
    BY <1>2, <1>e, <1>g, <2>1 DEF Authenticate, Busy
  <2>2. CASE /\ VaultFile.hdr.main = worker[w].old
             /\ Go(w, [worker[w] EXCEPT !.pc = "open", !.src = dir["vault"],
                                        !.hdr = VaultFile.hdr])
    <3> DEFINE r == [worker[w] EXCEPT !.pc = "open", !.src = dir["vault"],
                                      !.hdr = VaultFile.hdr]
    <3>1. /\ worker'[w] = r
          /\ OneWorker'
          /\ \A v \in Workers \ {w} : Done(v)'
      BY <1>2, <1>a, <1>d, <2>2, Alone DEF Authenticate, Busy
    <3>2. /\ r.pc = "open" /\ r.src = dir["vault"] /\ r.hdr = VaultFile.hdr
          /\ r.old = worker[w].old /\ r.new = worker[w].new
      BY <1>a DEF WorkerRec
    <3>3. worker[w].new \in Passwords
      BY <1>2, <1>c DEF Authenticate, Rekeying
    <3>4. Rekeying(worker[w])' /\ Restoring(worker[w])'
      BY <1>2, <2>2, <3>1, <3>2, <3>3 DEF Authenticate, Rekeying, Restoring, VaultFile
    <3> QED
      BY <1>2, <1>e, <3>1, <3>4, StageOf DEF Authenticate
  <2> QED
    BY <1>2, <2>1, <2>2 DEF Authenticate, Results
<1>3. ASSUME NEW w \in Workers, NEW jsonLen \in {HdrLen - 1, HdrLen, HdrLen + 1},
             OpenTmp(w, jsonLen)
      PROVE  OneWorker' /\ Stage' /\ Content'
  <2>1. CASE UNCHANGED <<dir, disk>> /\ Finish(w, "failed")
    BY <1>3, <1>e, <1>g, <2>1 DEF OpenTmp, Busy
  <2>2. CASE ~(UNCHANGED <<dir, disk>> /\ Finish(w, "failed"))
    <3> DEFINE h == RekeyedHeader(worker[w].hdr, worker[w].new, jsonLen)
               r(i) == [worker[w] EXCEPT !.pc = "copy", !.dst = i, !.pos = 0,
                                         !.size = PayloadSize(worker[w].src)]
    <3>1. PICK i \in Inodes : /\ IF dir["tmp"] = 0 THEN i \notin Used ELSE i = dir["tmp"]
                              /\ dir' = [dir EXCEPT !["tmp"] = i]
                              /\ disk' = [disk EXCEPT ![i] = [hdr |-> h, body |-> 0]]
                              /\ Go(w, r(i))
      BY <1>3, <2>2 DEF OpenTmp
    <3>2. i # dir["vault"]
      BY <1>a, <1>b, <3>1 DEF Used
    <3>3. /\ worker[w].src = dir["vault"] /\ worker[w].hdr = VaultFile.hdr
          /\ worker[w].hdr.main = worker[w].old
          /\ worker[w].new \in Passwords
      BY <1>3, <1>c DEF OpenTmp, Rekeying
    <3>4. /\ r(i).pc = "copy" /\ r(i).dst = i /\ r(i).pos = 0
          /\ r(i).src = worker[w].src /\ r(i).hdr = worker[w].hdr
          /\ r(i).old = worker[w].old /\ r(i).new = worker[w].new
          /\ r(i).result = worker[w].result
      BY <1>a DEF WorkerRec
    <3>5. r(i).size = VaultFile.body
      BY <1>a, <3>3 DEF WorkerRec, PayloadSize, VaultFile
    <3>6. h = [VaultFile.hdr EXCEPT !.main = worker[w].new]
      <4>1. VaultFile.hdr \in Header /\ worker[w].hdr = VaultFile.hdr
        BY <1>a, <3>3 DEF File
      <4>2. (IF jsonLen < worker[w].hdr.len THEN worker[w].hdr.len ELSE jsonLen)
               = VaultFile.hdr.len
        <5>1. FitsOldHeader(worker[w].hdr, jsonLen)
          BY <1>3, <2>2 DEF OpenTmp
        <5>2. jsonLen <= VaultFile.hdr.len
          BY <4>1, <5>1 DEF FitsOldHeader
        <5>3. jsonLen \in Nat /\ VaultFile.hdr.len \in Nat
          BY <4>1 DEF Header
        <5> QED
          BY <4>1, <5>2, <5>3
      <4> QED
        BY <4>1, <4>2 DEF RekeyedHeader, Header
    <3>7. /\ dir'["vault"] = dir["vault"] /\ dir'["tmp"] = i
          /\ VaultFile' = VaultFile
          /\ disk'[i].hdr = h /\ disk'[i].body = 0
      BY <1>a, <3>1, <3>2 DEF VaultFile
    <3>8. /\ worker'[w] = r(i)
          /\ OneWorker'
          /\ \A v \in Workers \ {w} : Done(v)'
      <4>1. \A v \in Workers \ {w} : Done(v)
        BY <1>3, <1>d DEF OpenTmp, Busy
      <4> HIDE DEF r
      <4> QED
        BY <1>a, <3>1, <4>1, Alone
    <3>9. Rekeying(worker[w])' /\ Restoring(worker[w])'
      <4> HIDE DEF h, r
      <4> QED
        BY <3>2, <3>3, <3>4, <3>5, <3>6, <3>7, <3>8 DEF Rekeying, Restoring
    <3>10. Content'
      BY <1>3, <1>b, <3>2, <3>7 DEF OpenTmp, Content, Good, Whole, Sound
    <3> QED
      BY <3>8, <3>9, <3>10, StageOf
  <2> QED
    BY <2>1, <2>2
<1>4. ASSUME NEW w \in Workers, CopyChunk(w)
      PROVE  OneWorker' /\ Stage' /\ Content'
  <2>1. /\ worker[w].dst # dir["vault"] /\ worker[w].dst \in Inodes
        /\ worker[w].src = dir["vault"] /\ worker[w].size = VaultFile.body
        /\ disk[worker[w].dst].body = worker[w].pos
        /\ worker[w].pos \in 0..Chunks /\ worker[w].pos < VaultFile.body
    BY <1>4, <1>a, <1>c DEF CopyChunk, Rekeying, WorkerRec
  <2>2. CASE \E res \in Results : UNCHANGED disk /\ Finish(w, res)
    BY <1>4, <1>e, <1>g, <2>2 DEF CopyChunk, Busy
  <2>3. CASE worker[w].pos >= disk[worker[w].src].body
    BY <1>a, <2>1, <2>3 DEF File, VaultFile
  <2>4. CASE LET pos == worker[w].pos IN
             /\ disk' = [disk EXCEPT ![worker[w].dst].body = IF @ > pos THEN @ ELSE pos + 1]
             /\ Go(w, [worker[w] EXCEPT !.pos = pos + 1])
    <3> DEFINE pos == worker[w].pos
               r == [worker[w] EXCEPT !.pos = pos + 1]
    <3>1. /\ worker'[w] = r
          /\ OneWorker'
          /\ \A v \in Workers \ {w} : Done(v)'
      BY <1>4, <1>a, <1>d, <2>4, Alone DEF CopyChunk, Busy
    <3>2. /\ r.pc = "copy" /\ r.dst = worker[w].dst /\ r.pos = pos + 1
          /\ r.src = worker[w].src /\ r.hdr = worker[w].hdr
          /\ r.old = worker[w].old /\ r.new = worker[w].new
          /\ r.result = worker[w].result /\ r.size = worker[w].size
      BY <1>4, <1>a DEF CopyChunk, WorkerRec
    <3>3. /\ disk'[worker[w].dst].body = pos + 1
          /\ disk'[worker[w].dst].hdr = disk[worker[w].dst].hdr
          /\ VaultFile' = VaultFile
          /\ dir' = dir
      BY <1>4, <1>a, <1>b, <2>1, <2>4 DEF CopyChunk, VaultFile, File
    <3>4. Rekeying(worker[w])
      BY <1>c
    <3>5. Rekeying(worker[w])' /\ Restoring(worker[w])'
      <4> HIDE DEF r
      <4> QED
        BY <1>4, <2>1, <3>1, <3>2, <3>3, <3>4 DEF CopyChunk, Rekeying, Restoring
    <3>6. Content'
      BY <1>4, <1>b, <3>3 DEF CopyChunk, Content, Good, Whole, Sound
    <3> QED
      BY <3>1, <3>5, <3>6, StageOf
  <2> QED
    BY <1>4, <2>2, <2>3, <2>4 DEF CopyChunk, Results
<1>5. ASSUME NEW w \in Workers, CopyDone(w)
      PROVE  OneWorker' /\ Stage' /\ Content'
  <2> DEFINE r == [worker[w] EXCEPT !.pc = "commit"]
  <2>1. /\ worker'[w] = r
        /\ OneWorker'
        /\ \A v \in Workers \ {w} : Done(v)'
    BY <1>5, <1>a, <1>d, Alone DEF CopyDone, Busy
  <2>2. /\ r.pc = "commit" /\ r.dst = worker[w].dst /\ r.pos = worker[w].pos
        /\ r.src = worker[w].src /\ r.hdr = worker[w].hdr
        /\ r.old = worker[w].old /\ r.new = worker[w].new
        /\ r.result = worker[w].result /\ r.size = worker[w].size
    BY <1>a DEF WorkerRec
  <2>3. Rekeying(worker[w])
    BY <1>c
  <2>4. Rekeying(worker[w])' /\ Restoring(worker[w])'
    <3> HIDE DEF r
    <3> QED
      BY <1>5, <2>1, <2>2, <2>3 DEF CopyDone, Rekeying, Restoring, VaultFile
  <2> QED
    BY <1>5, <1>e, <2>1, <2>4, StageOf DEF CopyDone
\* A worker that has replaced the vault only has to report.
<1>j. ASSUME NEW w \in Workers, w \in Busy, NEW p \in {"record", "report"},
             Go(w, [worker[w] EXCEPT !.pc = p])
      PROVE  OneWorker' /\ Stage'
  <2> DEFINE r == [worker[w] EXCEPT !.pc = p]
  <2>1. r.pc = p
    BY <1>a DEF WorkerRec
  <2> HIDE DEF r
  <2>2. /\ worker'[w] = r
        /\ OneWorker'
        /\ \A v \in Workers \ {w} : Done(v)'
    BY <1>a, <1>d, <1>j, Alone DEF r
  <2>3. Rekeying(worker[w])' /\ Restoring(worker[w])'
    BY <2>1, <2>2 DEF Rekeying, Restoring
  <2> QED
    BY <2>2, <2>3, StageOf
<1>6. ASSUME NEW w \in Workers, Commit(w)
      PROVE  OneWorker' /\ Stage' /\ Content'
  <2>1. OneWorker' /\ Stage'
    BY <1>6, <1>g, <1>j DEF Commit, Busy, Results
  <2>2. CASE UNCHANGED dir
    BY <1>6, <1>e, <2>1, <2>2 DEF Commit
  <2>3. CASE dir["tmp"] # 0 /\ dir' = [vault |-> dir["tmp"], tmp |-> 0]
    <3>1. /\ dir["tmp"] # 0 => worker[w].dst = dir["tmp"]
          /\ worker[w].dst \in Inodes
          /\ disk[worker[w].dst].hdr = [VaultFile.hdr EXCEPT !.main = worker[w].new]
          /\ disk[worker[w].dst].body = VaultFile.body
          /\ worker[w].new \in Passwords
      BY <1>6, <1>c DEF Commit, Rekeying
    <3>2. VaultFile' = disk[worker[w].dst]
      BY <1>6, <2>3, <3>1 DEF Commit, VaultFile
    <3>3. ~cut => Good(VaultFile)'
      BY <1>a, <1>b, <3>1, <3>2 DEF Good, Whole, File, Header
    <3>4. dir'["tmp"] # dir'["vault"]
      BY <2>3, <3>1
    <3> QED
      BY <1>6, <1>b, <2>1, <3>3, <3>4 DEF Commit, Content, Good, Whole, Sound
  <2> QED
    BY <1>6, <2>1, <2>2, <2>3 DEF Commit
<1>15. ASSUME NEW w \in Workers, Record(w)
       PROVE  OneWorker' /\ Stage' /\ Content'
  BY <1>15, <1>e, <1>g DEF Record, Busy
<1>16. ASSUME NEW w \in Workers, Report(w)
       PROVE  OneWorker' /\ Stage' /\ Content'
  BY <1>16, <1>e, <1>i DEF Report, Busy
<1>7. ASSUME NEW w \in Workers, Cleanup(w)
      PROVE  OneWorker' /\ Stage' /\ Content'
  <2>1. /\ worker'[w].pc = "idle"
        /\ \A v \in Workers \ {w} : worker'[v] = worker[v]
    BY <1>7, <1>a DEF Cleanup, Go, Idle
  <2>2. dir'["vault"] = dir["vault"] /\ dir'["tmp"] \in {dir["tmp"], 0}
    BY <1>7, <1>a DEF Cleanup
  <2>4. OneWorker'
    BY <2>1 DEF SafeInv, OneWorker, Busy
  <2>5. Rekeying(worker[w])' /\ Restoring(worker[w])'
    BY <2>1 DEF Rekeying, Restoring
  <2>6. ASSUME NEW v \in Workers \ {w}
        PROVE  Rekeying(worker[v])' /\ Restoring(worker[v])'
    BY <1>7, <1>c, <2>1, <2>2 DEF Cleanup, Rekeying, Restoring, VaultFile
  <2>3. Content'
    BY <1>7, <1>a, <1>b, <2>2 DEF Cleanup, Content, VaultFile, Good, Whole, Sound
  <2> QED
    BY <2>3, <2>4, <2>5, <2>6 DEF Stage
<1>8. ASSUME NEW w \in Workers, CopyVersion(w)
      PROVE  OneWorker' /\ Stage' /\ Content'
  <2>1. CASE UNCHANGED disk /\ Go(w, Idle("failed"))
    BY <1>8, <1>e, <1>i, <2>1 DEF CopyVersion, Busy
  <2>2. CASE ~(UNCHANGED disk /\ Go(w, Idle("failed")))
    <3> DEFINE r(i) == [worker[w] EXCEPT !.pc = "install", !.dst = i]
    <3>1. PICK i \in Inodes \ Used : /\ disk' = [disk EXCEPT ![i] = worker[w].ver.file]
                                     /\ Go(w, r(i))
      BY <1>8, <2>2 DEF CopyVersion
    <3>2. i # dir["vault"] /\ i # dir["tmp"] /\ i \in Inodes
      BY <1>a, <3>1 DEF Used
    <3>3. /\ worker'[w] = r(i)
          /\ OneWorker'
          /\ \A v \in Workers \ {w} : Done(v)'
      BY <1>8, <1>a, <1>d, <3>1, Alone DEF CopyVersion, Busy
    <3>4. /\ r(i).pc = "install" /\ r(i).dst = i /\ r(i).ver = worker[w].ver
      BY <1>a DEF WorkerRec
    <3>5. Sound(worker[w].ver)
      BY <1>8, <1>c DEF CopyVersion, Restoring
    <3>6. dir' = dir /\ disk'[i] = worker[w].ver.file /\ VaultFile' = VaultFile
      BY <1>8, <1>a, <3>1, <3>2 DEF CopyVersion, VaultFile
    <3>7. Rekeying(worker[w])' /\ Restoring(worker[w])'
      <4> HIDE DEF r
      <4> QED
        BY <3>2, <3>3, <3>4, <3>5, <3>6 DEF Rekeying, Restoring, Good, Whole, Sound
    <3>8. Content'
      BY <1>8, <1>b, <3>6 DEF CopyVersion, Content, Good, Whole, Sound
    <3> QED
      BY <3>3, <3>7, <3>8, StageOf
  <2> QED
    BY <2>1, <2>2
<1>9. ASSUME NEW w \in Workers, InstallVersion(w)
      PROVE  OneWorker' /\ Stage' /\ Content'
  <2>1. OneWorker' /\ Stage'
    BY <1>9, <1>i, <1>j DEF InstallVersion, Busy
  <2>2. CASE UNCHANGED <<dir, cut>>
    BY <1>9, <1>e, <2>1, <2>2 DEF InstallVersion
  <2>3. CASE dir' = [dir EXCEPT !["vault"] = worker[w].dst] /\ cut' = worker[w].ver.cut
    <3>1. /\ worker[w].dst # dir["tmp"]
          /\ disk[worker[w].dst] = worker[w].ver.file
          /\ Sound(worker[w].ver)
      BY <1>9, <1>c DEF InstallVersion, Restoring
    <3>2. dir'["vault"] = worker[w].dst /\ dir'["tmp"] = dir["tmp"]
      BY <1>a, <2>3
    <3>3. ~cut' => Good(VaultFile)'
      BY <1>9, <2>3, <3>1, <3>2 DEF InstallVersion, VaultFile, Good, Whole, Sound
    <3> QED
      BY <1>9, <1>b, <2>1, <3>1, <3>2, <3>3 DEF InstallVersion, Content, Good, Whole, Sound
  <2> QED
    BY <1>9, <2>2, <2>3 DEF InstallVersion
<1>h. ASSUME NEW w \in Workers, MayStart(w)
      PROVE  \A v \in Workers \ {w} : Done(v)
  BY <1>h DEF MayStart, Busy, Done
<1>10. ASSUME NEW w \in Workers, NEW old \in Passwords, NEW new \in Passwords,
              StartRekey(w, old, new)
       PROVE  OneWorker' /\ Stage' /\ Content'
  <2> DEFINE r == [Idle("none") EXCEPT !.pc = "save", !.old = old, !.new = new]
  <2>1. /\ worker'[w] = r
        /\ OneWorker'
        /\ \A v \in Workers \ {w} : Done(v)'
    BY <1>10, <1>a, <1>h, Alone DEF StartRekey
  <2>2. r.pc = "save" /\ r.new = new
    BY DEF Idle
  <2>3. Rekeying(worker[w])' /\ Restoring(worker[w])'
    <3> HIDE DEF r
    <3> QED
      BY <2>1, <2>2 DEF Rekeying, Restoring
  <2> QED
    BY <1>10, <1>e, <2>1, <2>3, StageOf DEF StartRekey
<1>11. ASSUME NEW w \in Workers, NEW v \in versions, StartReplaceCurrent(w, v)
       PROVE  OneWorker' /\ Stage' /\ Content'
  <2> DEFINE r == [Idle("none") EXCEPT !.pc = "restore", !.ver = v]
  <2>1. /\ worker'[w] = r
        /\ OneWorker'
        /\ \A u \in Workers \ {w} : Done(u)'
    BY <1>11, <1>a, <1>h, Alone DEF StartReplaceCurrent
  <2>2. r.pc = "restore" /\ r.ver = v /\ Sound(v)
    BY <1>b DEF Idle
  <2>3. Rekeying(worker[w])' /\ Restoring(worker[w])'
    <3> HIDE DEF r
    <3> QED
      BY <2>1, <2>2 DEF Rekeying, Restoring, Good, Whole, Sound
  <2> QED
    BY <1>11, <1>e, <2>1, <2>3, StageOf DEF StartReplaceCurrent
<1>k. ASSUME UNCHANGED <<dir, disk, worker>>
      PROVE  OneWorker' /\ Stage'
  BY <1>k DEF SafeInv, OneWorker, Busy, Stage, Rekeying, Restoring, VaultFile, Good, Whole,
     Sound
<1>12. CASE \E v \in versions : DropVersion(v)
  BY <1>12, <1>b, <1>k DEF DropVersion, Content, VaultFile, Good, Whole, Sound
<1>13. CASE ToggleVersioning \/ RequestClose \/ Restart \/ UNCHANGED vars
  BY <1>13, <1>e, <1>k DEF ToggleVersioning, RequestClose, Restart, vars
<1>14. CASE Crash
  BY <1>14, <1>e DEF Crash, Idle, OneWorker, Busy, Stage, Rekeying, Restoring
<1> QED
  BY <1>1, <1>2, <1>3, <1>4, <1>5, <1>6, <1>7, <1>8, <1>9, <1>10, <1>11, <1>12,
     <1>13, <1>14, <1>15, <1>16 DEF Next, WorkerStep

LEMMA SafeAlways ==
    ASSUME Exclusive
    PROVE  Spec => []SafeInv
BY SafeInitially, SafeStep, PTL DEF Spec

\* The vault's name always holds a complete file that its main password opens
\* (temp sibling, copy loop and os.replace of rekey_vault and _rekey_worker),
\* whatever copies broke off, until one of those is put back.
THEOREM VaultStaysWhole ==
    ASSUME Exclusive
    PROVE  Spec => []VaultWhole
<1>1. SafeInv => VaultWhole
  BY RekeyAssumption DEF SafeInv, Content, Good, Whole, VaultWhole, Unlock,
     HiddenOpens
<1> QED
  BY SafeAlways, <1>1, PTL

\* The hidden password and the recovery phrase survive every re-key and every
\* roll-back (what rekey_vault copies into the new header), as long as no main
\* password equals the hidden one, which rekey_vault does not check.
THEOREM CompartmentsStay ==
    ASSUME Exclusive, HiddenPw \notin Passwords
    PROVE  Spec => []CompartmentsSurvive
<1>1. SafeInv => CompartmentsSurvive
  BY RekeyAssumption DEF SafeInv, Content, Good, Whole, CompartmentsSurvive, Unlock,
     HiddenOpens, Recoverable
<1> QED
  BY SafeAlways, <1>1, PTL

\* Every version that was copied to the end, of a vault that does not go back to
\* one that was not, is a whole vault, although a copy may break off at any byte
\* and stays listed (save_version, replace_current).
THEOREM VersionsStayWhole ==
    ASSUME Exclusive
    PROVE  Spec => []VersionsWhole
<1>1. SafeInv => VersionsWhole
  BY DEF SafeInv, Content, Good, Whole, VersionsWhole, Recoverable, Sound
<1> QED
  BY SafeAlways, <1>1, PTL

-----------------------------------------------------------------------------
LEMMA ChangeStep == SafeInv /\ [Next]_vars => [ChangeIsCommit]_vars
<1> SUFFICES ASSUME SafeInv, Next PROVE ChangeIsCommit
  OBVIOUS
<1> USE RekeyAssumption
<1>a. /\ dir \in [{"vault", "tmp"} -> Inodes \cup {0}]
      /\ dir["vault"] \in Inodes /\ dir["tmp"] # dir["vault"]
      /\ disk \in [Inodes -> File]
      /\ worker \in [Workers -> WorkerRec]
      /\ VaultFile \in File
  BY DEF SafeInv, TypeInv, TypeOK, Content, VaultFile
<1>b. \A w \in Workers : Rekeying(worker[w]) /\ Restoring(worker[w])
  BY DEF SafeInv, Stage
<1>c. ASSUME dir'["vault"] = dir["vault"], disk'[dir["vault"]] = disk[dir["vault"]]
      PROVE  ChangeIsCommit
  BY <1>c DEF ChangeIsCommit, VaultFile
<1>1. ASSUME NEW w \in Workers, SaveVersion(w) \/ Authenticate(w) \/ CopyDone(w)
      PROVE  ChangeIsCommit
  BY <1>1, <1>c DEF SaveVersion, Authenticate, CopyDone
<1>2. ASSUME NEW w \in Workers, NEW jsonLen \in {HdrLen - 1, HdrLen, HdrLen + 1},
             OpenTmp(w, jsonLen)
      PROVE  ChangeIsCommit
  <2>1. CASE UNCHANGED <<dir, disk>>
    BY <1>c, <2>1
  <2>2. CASE ~UNCHANGED <<dir, disk>>
    <3>1. PICK i \in Inodes : /\ IF dir["tmp"] = 0 THEN i \notin Used ELSE i = dir["tmp"]
                             /\ dir' = [dir EXCEPT !["tmp"] = i]
                             /\ \A j \in Inodes \ {i} : disk'[j] = disk[j]
      BY <1>a, <1>2, <2>2 DEF OpenTmp
    <3>2. i # dir["vault"]
      BY <1>a, <3>1 DEF Used
    <3> QED
      BY <1>a, <1>c, <3>1, <3>2
  <2> QED
    BY <2>1, <2>2
<1>3. ASSUME NEW w \in Workers, CopyChunk(w)
      PROVE  ChangeIsCommit
  <2>1. dir' = dir /\ worker[w].dst # dir["vault"]
    BY <1>3, <1>a, <1>b DEF CopyChunk, Rekeying
  <2> QED
    BY <1>3, <1>a, <1>c, <2>1 DEF CopyChunk
<1>4. ASSUME NEW w \in Workers, Commit(w)
      PROVE  ChangeIsCommit
  <2>1. CASE UNCHANGED dir
    BY <1>4, <1>c, <2>1 DEF Commit
  <2>2. CASE /\ dir["tmp"] # 0
             /\ dir' = [vault |-> dir["tmp"], tmp |-> 0]
             /\ Go(w, [worker[w] EXCEPT !.pc = "record"])
    <3>1. /\ worker[w].dst = dir["tmp"] /\ worker[w].dst \in Inodes
          /\ disk[worker[w].dst].hdr = [VaultFile.hdr EXCEPT !.main = worker[w].new]
          /\ disk[worker[w].dst].body = VaultFile.body
          /\ VaultFile.hdr.main = worker[w].old /\ worker[w].pc = "commit"
      BY <1>4, <1>b, <2>2 DEF Commit, Rekeying
    <3>2. VaultFile' = disk[worker[w].dst] /\ disk[worker[w].dst] \in File
      BY <1>4, <1>a, <2>2, <3>1 DEF Commit, VaultFile
    <3>3. VaultFile' = [VaultFile EXCEPT !.hdr.main = worker[w].new]
      BY <1>a, <3>1, <3>2 DEF File
    <3>4. worker'[w].pc = "record"
      BY <1>a, <2>2 DEF Go, WorkerRec
    <3> QED
      BY <3>1, <3>3, <3>4 DEF ChangeIsCommit
  <2> QED
    BY <1>4, <2>1, <2>2 DEF Commit
<1>5. ASSUME NEW w \in Workers, Cleanup(w)
      PROVE  ChangeIsCommit
  BY <1>5, <1>a, <1>c DEF Cleanup
<1>6. ASSUME NEW w \in Workers, CopyVersion(w)
      PROVE  ChangeIsCommit
  <2>1. CASE UNCHANGED disk
    BY <1>6, <1>c, <2>1 DEF CopyVersion
  <2>2. CASE ~UNCHANGED disk
    <3>1. PICK i \in Inodes \ Used : disk' = [disk EXCEPT ![i] = worker[w].ver.file]
      BY <1>6, <2>2 DEF CopyVersion
    <3>2. i # dir["vault"]
      BY <1>a, <3>1 DEF Used
    <3> QED
      BY <1>6, <1>a, <1>c, <3>1, <3>2 DEF CopyVersion
  <2> QED
    BY <2>1, <2>2
<1>7. ASSUME NEW w \in Workers, InstallVersion(w)
      PROVE  ChangeIsCommit
  <2>1. CASE UNCHANGED dir
    BY <1>7, <1>c, <2>1 DEF InstallVersion
  <2>2. CASE /\ dir' = [dir EXCEPT !["vault"] = worker[w].dst]
             /\ Go(w, [worker[w] EXCEPT !.pc = "report"])
    <3>1. disk[worker[w].dst] = worker[w].ver.file /\ worker[w].pc = "install"
      BY <1>7, <1>b DEF InstallVersion, Restoring
    <3>2. VaultFile' = worker[w].ver.file
      BY <1>7, <1>a, <2>2, <3>1 DEF InstallVersion, VaultFile
    <3>3. worker'[w].pc = "report"
      BY <1>a, <2>2 DEF Go, WorkerRec
    <3> QED
      BY <3>1, <3>2, <3>3 DEF ChangeIsCommit
  <2> QED
    BY <1>7, <2>1, <2>2 DEF InstallVersion
<1>8. ASSUME UNCHANGED <<dir, disk>>
      PROVE  ChangeIsCommit
  BY <1>8, <1>c
<1> QED
  BY <1>1, <1>2, <1>3, <1>4, <1>5, <1>6, <1>7, <1>8 DEF Next, WorkerStep, StartRekey,
     StartReplaceCurrent, DropVersion, ToggleVersioning, RequestClose, Crash, Restart,
     Record, Report

\* The vault changes only in the step of a worker that replaces it, to the
\* password it was asked for and from the password it was given, or to the
\* version it was given; no later error and no report of one changes it back
\* (_rekey_worker, _replace_current_worker).
THEOREM VaultChangesByCommit ==
    ASSUME Exclusive
    PROVE  Spec => VaultChangesOnlyByCommit
BY SafeAlways, ChangeStep, PTL DEF Spec, VaultChangesOnlyByCommit

-----------------------------------------------------------------------------
(* The vault implements the register of CredentialRegister: every step is a *)
(* step of the register, or leaves it alone.                                *)

MainPw == VaultFile.hdr.main
MainPws == {v.file.hdr.main : v \in versions}

\* Nobody else's request or answer changes.
OthersSame(w) ==
    \A u \in Workers \ {w} : Request(u)' = Request(u) /\ Answer(u)' = Answer(u)

\* The register's variables, by what they stand for.
LEMMA RegisterStutters ==
    ASSUME MainPw' = MainPw, MainPws' = MainPws,
           \A u \in Workers : Request(u)' = Request(u) /\ Answer(u)' = Answer(u)
    PROVE  UNCHANGED Register!rvars
<1>1. [u \in Workers |-> Request(u)]' = [u \in Workers |-> Request(u)]
  OBVIOUS
<1>2. [u \in Workers |-> Answer(u)]' = [u \in Workers |-> Answer(u)]
  OBVIOUS
<1> QED
  BY <1>1, <1>2 DEF Register!rvars, MainPw, MainPws

LEMMA RegisterAsks ==
    ASSUME NEW w \in Workers, NEW req \in Register!Requests,
           MainPw' = MainPw, MainPws' = MainPws, OthersSame(w),
           Request(w) = Register!NoReq, Request(w)' = req, Answer(w)' = "none",
           req.op = "rekey" => req.old # req.new,
           req.op = "rollback" => req.new \in MainPws
    PROVE  Register!Next
<1>1. [u \in Workers |-> Request(u)]' = [[u \in Workers |-> Request(u)] EXCEPT ![w] = req]
  BY DEF OthersSame
<1>2. [u \in Workers |-> Answer(u)]' = [[u \in Workers |-> Answer(u)] EXCEPT ![w] = "none"]
  BY DEF OthersSame
<1>3. Register!Ask(w, req)
  BY <1>1, <1>2 DEF Register!Ask, MainPw, MainPws
<1> QED
  BY <1>3 DEF Register!Next

LEMMA RegisterReplies ==
    ASSUME NEW w \in Workers, NEW text \in {"done", "refused", "failed"},
           MainPw' = MainPw, MainPws' = MainPws, OthersSame(w),
           Request(w) # Register!NoReq, Request(w)' = Register!NoReq,
           text = "done" => Request(w).status = "granted",
           text = "refused" => Request(w).status = "open",
           Answer(w)' = text
    PROVE  Register!Next
<1>1. [u \in Workers |-> Request(u)]'
        = [[u \in Workers |-> Request(u)] EXCEPT ![w] = Register!NoReq]
  BY DEF OthersSame, Register!NoReq
<1>2. [u \in Workers |-> Answer(u)]' = [[u \in Workers |-> Answer(u)] EXCEPT ![w] = text]
  BY DEF OthersSame
<1>3. Register!Reply(w, text)
  BY <1>1, <1>2 DEF Register!Reply, MainPw, MainPws
<1> QED
  BY <1>3 DEF Register!Next

LEMMA RegisterGrants ==
    ASSUME NEW w \in Workers, MainPws' = MainPws, OthersSame(w),
           Request(w) # Register!NoReq, Request(w).status = "open",
           Request(w)' = [Request(w) EXCEPT !.status = "granted"],
           Request(w).op = "rekey" => Request(w).old = MainPw,
           MainPw' = Request(w).new, Answer(w)' = Answer(w)
    PROVE  Register!Next
<1>1. [u \in Workers |-> Request(u)]'
        = [[u \in Workers |-> Request(u)] EXCEPT ![w].status = "granted"]
  BY DEF OthersSame
<1>2. [u \in Workers |-> Answer(u)]' = [u \in Workers |-> Answer(u)]
  BY DEF OthersSame
<1>3. Register!Grant(w)
  BY <1>1, <1>2 DEF Register!Grant, MainPw, MainPws
<1> QED
  BY <1>3 DEF Register!Next

LEMMA RegisterArchives ==
    ASSUME MainPw' = MainPw, MainPws' \subseteq MainPws \cup {MainPw, NoPw},
           \A u \in Workers : Request(u)' = Request(u) /\ Answer(u)' = Answer(u)
    PROVE  Register!Next
<1>1. [u \in Workers |-> Request(u)]' = [u \in Workers |-> Request(u)]
  OBVIOUS
<1>2. [u \in Workers |-> Answer(u)]' = [u \in Workers |-> Answer(u)]
  OBVIOUS
<1>3. Register!Archive
  BY <1>1, <1>2 DEF Register!Archive, MainPw, MainPws
<1> QED
  BY <1>3 DEF Register!Next

LEMMA RegisterForgets ==
    ASSUME MainPw' = MainPw, MainPws' = MainPws,
           \A u \in Workers : Request(u)' = Register!NoReq /\ Answer(u)' = "none"
    PROVE  Register!Next
<1>1. [u \in Workers |-> Request(u)]' = [u \in Workers |-> Register!NoReq]
  OBVIOUS
<1>2. [u \in Workers |-> Answer(u)]' = [u \in Workers |-> "none"]
  OBVIOUS
<1>3. Register!PowerCut
  BY <1>1, <1>2 DEF Register!PowerCut, MainPw, MainPws
<1> QED
  BY <1>3 DEF Register!Next

\* A step of one worker leaves the others' requests and answers alone.
LEMMA GoFacts ==
    ASSUME worker \in [Workers -> WorkerRec], NEW w \in Workers, NEW r, Go(w, r)
    PROVE  worker'[w] = r /\ OthersSame(w)
<1>1. worker'[w] = r /\ \A u \in Workers \ {w} : worker'[u] = worker[u]
  BY DEF Go
<1> QED
  BY <1>1 DEF OthersSame, Request, Answer

\* What a worker asks for, and whether it has got it, shows in its stage.
LEMMA StageRequest ==
    ASSUME NEW w \in Workers
    PROVE  /\ worker[w].pc \in {"save", "auth", "open", "copy", "commit", "record"} =>
                 /\ Request(w) = [op |-> "rekey", old |-> worker[w].old, new |-> worker[w].new,
                                  status |-> IF worker[w].pc = "record" THEN "granted" ELSE "open"]
                 /\ Request(w) # Register!NoReq
           /\ worker[w].pc \in {"restore", "install", "report"} =>
                 /\ Request(w) = [op |-> "rollback", old |-> NoPw,
                                  new |-> worker[w].ver.file.hdr.main,
                                  status |-> IF worker[w].pc = "report" THEN "granted" ELSE "open"]
                 /\ Request(w) # Register!NoReq
           /\ worker[w].pc \in {"idle", "cleanup"} => Request(w) = Register!NoReq
<1>1. CASE worker[w].pc \in {"save", "auth", "open", "copy", "commit", "record"}
  BY <1>1 DEF Request, Register!NoReq
<1>2. CASE worker[w].pc \in {"restore", "install", "report"}
  BY <1>2 DEF Request, Register!NoReq
<1>3. CASE worker[w].pc \in {"idle", "cleanup"}
  BY <1>3 DEF Request, Register!NoReq
<1> QED
  BY <1>1, <1>2, <1>3

\* A worker that has ended has no request, and an answer.
LEMMA OverFacts ==
    ASSUME NEW w \in Workers, NEW res \in Results,
           worker'[w].pc \in {"idle", "cleanup"}, worker'[w].result = res
    PROVE  /\ Request(w)' = Register!NoReq
           /\ res = "none" => Answer(w)' = "none"
           /\ res \in {"complete", "replaced"} => Answer(w)' = "done"
           /\ res \in {"wrong", "cancelled"} => Answer(w)' = "refused"
           /\ res = "failed" => Answer(w)' = "failed"
BY DEF Request, Register!NoReq, Answer, Results

LEMMA FinishFacts ==
    ASSUME worker \in [Workers -> WorkerRec], NEW w \in Workers, NEW res \in Results,
           Finish(w, res) \/ Go(w, Idle(res))
    PROVE  /\ OthersSame(w)
           /\ worker'[w].pc \in {"idle", "cleanup"} /\ worker'[w].result = res
<1>1. CASE Finish(w, res)
  <2> DEFINE r == [worker[w] EXCEPT !.pc = "cleanup", !.result = res]
  <2>1. r.pc = "cleanup" /\ r.result = res
    BY DEF WorkerRec
  <2>2. Go(w, r)
    BY <1>1 DEF Finish
  <2> HIDE DEF r
  <2> QED
    BY <2>1, <2>2, GoFacts
<1>2. CASE Go(w, Idle(res))
  <2>1. Idle(res).pc = "idle" /\ Idle(res).result = res
    BY DEF Idle
  <2> QED
    BY <1>2, <2>1, GoFacts
<1> QED
  BY <1>1, <1>2

\* A step within a stretch of one request.
LEMMA WithinRequest ==
    ASSUME worker \in [Workers -> WorkerRec], NEW w \in Workers, NEW r, Go(w, r),
           \/ /\ worker[w].pc \in {"save", "auth", "open", "copy", "commit"}
              /\ r.pc \in {"save", "auth", "open", "copy", "commit"}
              /\ r.old = worker[w].old /\ r.new = worker[w].new
           \/ /\ worker[w].pc = "restore" /\ r.pc = "install"
              /\ r.ver = worker[w].ver,
           r.result = worker[w].result
    PROVE  \A u \in Workers : Request(u)' = Request(u) /\ Answer(u)' = Answer(u)
<1>1. worker'[w] = r /\ OthersSame(w)
  BY GoFacts
<1>2. Answer(w)' = Answer(w)
  BY <1>1 DEF Answer
<1>3. Request(w)' = Request(w)
  BY <1>1 DEF Request
<1> QED
  BY <1>1, <1>2, <1>3 DEF OthersSame

\* Each step of the vault is one of the register's, or none.
LEMMA RegisterStep ==
    ASSUME SafeInv, [Next]_vars
    PROVE  [Register!Next]_Register!rvars
<1> USE RekeyAssumption
<1>a. /\ dir \in [{"vault", "tmp"} -> Inodes \cup {0}]
      /\ dir["vault"] \in Inodes /\ dir["tmp"] # dir["vault"]
      /\ disk \in [Inodes -> File]
      /\ worker \in [Workers -> WorkerRec]
      /\ VaultFile \in File
  BY DEF SafeInv, TypeInv, TypeOK, Content, VaultFile
<1>b. \A w \in Workers : Rekeying(worker[w]) /\ Restoring(worker[w])
  BY DEF SafeInv, Stage
<1>c. ASSUME dir'["vault"] = dir["vault"], disk'[dir["vault"]] = disk[dir["vault"]]
      PROVE  MainPw' = MainPw
  BY <1>c DEF MainPw, VaultFile
<1>d. versions' = versions => MainPws' = MainPws
  BY DEF MainPws
<1>e. ASSUME NEW w \in Workers, NEW res \in {"wrong", "cancelled", "failed"},
             Finish(w, res) \/ Go(w, Idle(res)), UNCHANGED <<dir, disk, versions>>,
             worker[w].pc \notin {"idle", "cleanup", "record", "report"}
      PROVE  Register!Next
  <2>1. worker[w].pc \in Stages
    BY <1>a DEF WorkerRec
  <2>2. Request(w) # Register!NoReq /\ Request(w).status = "open"
    BY <1>e, <2>1, StageRequest DEF Stages
  <2>3. OthersSame(w) /\ worker'[w].pc \in {"idle", "cleanup"} /\ worker'[w].result = res
    BY <1>a, <1>e, FinishFacts DEF Results
  <2>4. Request(w)' = Register!NoReq /\ Answer(w)' \in {"refused", "failed"}
    BY <1>e, <2>3, OverFacts DEF Results
  <2> QED
    BY <1>c, <1>d, <1>e, <2>2, <2>3, <2>4, RegisterReplies
<1>f. ASSUME MainPw' = MainPw, MainPws' = MainPws,
             \A u \in Workers : Request(u)' = Request(u) /\ Answer(u)' = Answer(u)
      PROVE  [Register!Next]_Register!rvars
  BY <1>f, RegisterStutters
<1>1. ASSUME NEW w \in Workers, SaveVersion(w) PROVE Register!Next
  <2> DEFINE r == [worker[w] EXCEPT !.pc = "auth"]
  <2>1. /\ r.pc = "auth" /\ r.old = worker[w].old /\ r.new = worker[w].new
        /\ r.result = worker[w].result
    BY <1>a DEF WorkerRec
  <2>2. worker[w].pc = "save" /\ Go(w, r) /\ UNCHANGED <<dir, disk>>
    BY <1>1 DEF SaveVersion
  <2> HIDE DEF r
  <2>3. \A u \in Workers : Request(u)' = Request(u) /\ Answer(u)' = Answer(u)
    BY <1>a, <2>1, <2>2, WithinRequest
  <2>4. \A v \in versions' : \/ v \in versions
                            \/ v.file = VaultFile
                            \/ v.file \in CutShort(VaultFile)
    BY <1>1 DEF SaveVersion
  <2>5. MainPws' \subseteq MainPws \cup {MainPw, NoPw}
    BY <1>a, <2>4, CutShortType DEF MainPws, MainPw
  <2> QED
    BY <1>c, <2>2, <2>3, <2>5, RegisterArchives
<1>2. ASSUME NEW w \in Workers, Authenticate(w) PROVE [Register!Next]_Register!rvars
  <2>1. worker[w].pc = "auth" /\ UNCHANGED <<dir, disk, versions>>
    BY <1>2 DEF Authenticate
  <2>2. CASE Finish(w, "wrong") \/ Finish(w, "failed")
    BY <1>e, <2>1, <2>2
  <2>3. CASE Go(w, [worker[w] EXCEPT !.pc = "open", !.src = dir["vault"], !.hdr = VaultFile.hdr])
    <3> DEFINE r == [worker[w] EXCEPT !.pc = "open", !.src = dir["vault"], !.hdr = VaultFile.hdr]
    <3>1. /\ r.pc = "open" /\ r.old = worker[w].old /\ r.new = worker[w].new
          /\ r.result = worker[w].result
      BY <1>a DEF WorkerRec
    <3>2. Go(w, r)
      BY <2>3
    <3> HIDE DEF r
    <3>3. \A u \in Workers : Request(u)' = Request(u) /\ Answer(u)' = Answer(u)
      BY <1>a, <2>1, <3>1, <3>2, WithinRequest
    <3> QED
      BY <1>c, <1>d, <1>f, <2>1, <3>3
  <2> QED
    BY <1>2, <2>2, <2>3 DEF Authenticate
<1>3. ASSUME NEW w \in Workers, NEW jsonLen \in {HdrLen - 1, HdrLen, HdrLen + 1},
             OpenTmp(w, jsonLen)
      PROVE  [Register!Next]_Register!rvars
  <2>1. worker[w].pc = "open" /\ versions' = versions
    BY <1>3 DEF OpenTmp
  <2>2. CASE Finish(w, "failed") /\ UNCHANGED <<dir, disk>>
    BY <1>e, <2>1, <2>2
  <2>3. CASE ~(Finish(w, "failed") /\ UNCHANGED <<dir, disk>>)
    <3>1. PICK i \in Inodes :
             /\ IF dir["tmp"] = 0 THEN i \notin Used ELSE i = dir["tmp"]
             /\ dir' = [dir EXCEPT !["tmp"] = i]
             /\ \A j \in Inodes \ {i} : disk'[j] = disk[j]
             /\ Go(w, [worker[w] EXCEPT !.pc = "copy", !.dst = i, !.pos = 0,
                                        !.size = PayloadSize(worker[w].src)])
      BY <1>a, <1>3, <2>3 DEF OpenTmp
    <3>2. i # dir["vault"]
      BY <1>a, <3>1 DEF Used
    <3>3. MainPw' = MainPw
      BY <1>a, <1>c, <3>1, <3>2
    <3> DEFINE r == [worker[w] EXCEPT !.pc = "copy", !.dst = i, !.pos = 0,
                                      !.size = PayloadSize(worker[w].src)]
    <3>4. /\ r.pc = "copy" /\ r.old = worker[w].old /\ r.new = worker[w].new
          /\ r.result = worker[w].result
      BY <1>a DEF WorkerRec
    <3>5. Go(w, r)
      BY <3>1
    <3> HIDE DEF r
    <3>6. \A u \in Workers : Request(u)' = Request(u) /\ Answer(u)' = Answer(u)
      BY <1>a, <2>1, <3>4, <3>5, WithinRequest
    <3> QED
      BY <1>d, <1>f, <2>1, <3>3, <3>6
  <2> QED
    BY <2>2, <2>3
<1>4. ASSUME NEW w \in Workers, CopyChunk(w) \/ CopyDone(w)
      PROVE  [Register!Next]_Register!rvars
  <2>1. worker[w].pc = "copy" /\ dir' = dir /\ versions' = versions
    BY <1>4 DEF CopyChunk, CopyDone
  <2>2. worker[w].dst # dir["vault"]
    BY <1>b, <2>1 DEF Rekeying
  <2>3. disk'[dir["vault"]] = disk[dir["vault"]]
    BY <1>a, <1>4, <2>2 DEF CopyChunk, CopyDone
  <2>4. CASE disk' = disk /\ (Finish(w, "cancelled") \/ Finish(w, "failed"))
    BY <1>e, <2>1, <2>4
  <2>5. CASE \/ Go(w, [worker[w] EXCEPT !.pos = worker[w].pos + 1])
             \/ Go(w, [worker[w] EXCEPT !.pc = "commit"])
    <3>1. PICK r : /\ Go(w, r)
                   /\ \/ r = [worker[w] EXCEPT !.pos = worker[w].pos + 1]
                      \/ r = [worker[w] EXCEPT !.pc = "commit"]
      BY <2>5
    <3>2. /\ r.pc \in {"copy", "commit"} /\ r.old = worker[w].old /\ r.new = worker[w].new
          /\ r.result = worker[w].result
      BY <1>a, <2>1, <3>1 DEF WorkerRec
    <3>3. \A u \in Workers : Request(u)' = Request(u) /\ Answer(u)' = Answer(u)
      BY <1>a, <2>1, <3>1, <3>2, WithinRequest
    <3> QED
      BY <1>c, <1>d, <1>f, <2>1, <2>3, <3>3
  <2> QED
    BY <1>4, <2>4, <2>5 DEF CopyChunk, CopyDone
<1>5. ASSUME NEW w \in Workers, Commit(w) PROVE Register!Next
  <2>1. worker[w].pc = "commit" /\ UNCHANGED <<disk, versions>>
    BY <1>5 DEF Commit
  <2>2. CASE Finish(w, "failed") /\ UNCHANGED dir
    BY <1>e, <2>1, <2>2
  <2>3. CASE /\ dir["tmp"] # 0
             /\ dir' = [vault |-> dir["tmp"], tmp |-> 0]
             /\ Go(w, [worker[w] EXCEPT !.pc = "record"])
    <3>1. /\ worker[w].dst = dir["tmp"] /\ worker[w].dst \in Inodes
          /\ disk[worker[w].dst].hdr = [VaultFile.hdr EXCEPT !.main = worker[w].new]
          /\ VaultFile.hdr.main = worker[w].old
      BY <1>b, <2>1, <2>3 DEF Rekeying
    <3>2. VaultFile' = disk[worker[w].dst]
      BY <2>1, <2>3, <3>1 DEF VaultFile
    <3>3. MainPw' = worker[w].new
      BY <1>a, <3>1, <3>2 DEF MainPw, File, Header
    <3>4. /\ Request(w) = [op |-> "rekey", old |-> worker[w].old, new |-> worker[w].new,
                           status |-> "open"]
          /\ Request(w) # Register!NoReq
      BY <2>1, StageRequest
    <3> DEFINE r == [worker[w] EXCEPT !.pc = "record"]
    <3>5. /\ r.pc = "record" /\ r.old = worker[w].old /\ r.new = worker[w].new
          /\ r.result = worker[w].result
      BY <1>a DEF WorkerRec
    <3> HIDE DEF r
    <3>6. worker'[w] = r /\ OthersSame(w)
      BY <1>a, <2>3, GoFacts DEF r
    <3>7. /\ Request(w)' = [op |-> "rekey", old |-> worker[w].old, new |-> worker[w].new,
                            status |-> "granted"]
          /\ Answer(w)' = Answer(w)
      BY <3>5, <3>6 DEF Request, Answer
    <3>8. /\ Request(w).old = MainPw /\ MainPw' = Request(w).new
          /\ Request(w).status = "open" /\ Request(w)' = [Request(w) EXCEPT !.status = "granted"]
      BY <3>1, <3>3, <3>4, <3>7 DEF MainPw
    <3> QED
      BY <1>d, <2>1, <3>4, <3>6, <3>7, <3>8, RegisterGrants
  <2> QED
    BY <1>5, <2>2, <2>3 DEF Commit
\* The report of a request that was granted.
<1>g. ASSUME NEW w \in Workers, worker[w].pc \in {"record", "report"},
             NEW res \in {"complete", "replaced", "failed"},
             Finish(w, res) \/ Go(w, Idle(res)), UNCHANGED <<dir, disk, versions>>
      PROVE  Register!Next
  <2>1. Request(w) # Register!NoReq /\ Request(w).status = "granted"
    BY <1>g, StageRequest
  <2>2. OthersSame(w) /\ worker'[w].pc \in {"idle", "cleanup"} /\ worker'[w].result = res
    BY <1>a, <1>g, FinishFacts DEF Results
  <2>3. Request(w)' = Register!NoReq /\ Answer(w)' \in {"done", "failed"}
    BY <1>g, <2>2, OverFacts DEF Results
  <2> QED
    BY <1>c, <1>d, <1>g, <2>1, <2>2, <2>3, RegisterReplies
<1>15. ASSUME NEW w \in Workers, Record(w) \/ Report(w) PROVE Register!Next
  BY <1>15, <1>g DEF Record, Report
<1>6. ASSUME NEW w \in Workers, Cleanup(w) PROVE [Register!Next]_Register!rvars
  <2>1. /\ worker[w].pc = "cleanup" /\ dir'["vault"] = dir["vault"]
        /\ UNCHANGED <<disk, versions>> /\ Go(w, Idle(worker[w].result))
    BY <1>6, <1>a DEF Cleanup
  <2>2. worker[w].result \in Results
    BY <1>a DEF WorkerRec
  <2>3. OthersSame(w) /\ worker'[w].pc \in {"idle", "cleanup"} /\ worker'[w].result = worker[w].result
    BY <1>a, <2>1, <2>2, FinishFacts
  <2>4. Request(w)' = Request(w) /\ Answer(w)' = Answer(w)
    BY <2>1, <2>3 DEF Request, Answer
  <2> QED
    BY <1>c, <1>d, <1>f, <2>1, <2>3, <2>4 DEF OthersSame
<1>7. ASSUME NEW w \in Workers, CopyVersion(w) PROVE [Register!Next]_Register!rvars
  <2>1. worker[w].pc = "restore" /\ UNCHANGED <<dir, versions>>
    BY <1>7 DEF CopyVersion
  <2>2. CASE Go(w, Idle("failed")) /\ UNCHANGED disk
    BY <1>e, <2>1, <2>2
  <2>3. CASE ~(Go(w, Idle("failed")) /\ UNCHANGED disk)
    <3>1. PICK i \in Inodes \ Used : /\ disk' = [disk EXCEPT ![i] = worker[w].ver.file]
                                     /\ Go(w, [worker[w] EXCEPT !.pc = "install", !.dst = i])
      BY <1>7, <2>3 DEF CopyVersion
    <3>2. i # dir["vault"]
      BY <1>a, <3>1 DEF Used
    <3>3. MainPw' = MainPw
      BY <1>a, <1>c, <2>1, <3>1, <3>2
    <3> DEFINE r == [worker[w] EXCEPT !.pc = "install", !.dst = i]
    <3>4. r.pc = "install" /\ r.ver = worker[w].ver /\ r.result = worker[w].result
      BY <1>a DEF WorkerRec
    <3>5. Go(w, r)
      BY <3>1
    <3> HIDE DEF r
    <3>6. \A u \in Workers : Request(u)' = Request(u) /\ Answer(u)' = Answer(u)
      BY <1>a, <2>1, <3>4, <3>5, WithinRequest
    <3> QED
      BY <1>d, <1>f, <2>1, <3>3, <3>6
  <2> QED
    BY <2>2, <2>3
<1>8. ASSUME NEW w \in Workers, InstallVersion(w) PROVE Register!Next
  <2>1. worker[w].pc = "install" /\ UNCHANGED <<disk, versions>>
    BY <1>8 DEF InstallVersion
  <2>2. CASE Go(w, Idle("failed")) /\ UNCHANGED dir
    BY <1>e, <2>1, <2>2
  <2>3. CASE /\ dir' = [dir EXCEPT !["vault"] = worker[w].dst]
             /\ Go(w, [worker[w] EXCEPT !.pc = "report"])
    <3>1. disk[worker[w].dst] = worker[w].ver.file
      BY <1>b, <2>1 DEF Restoring
    <3>2. MainPw' = worker[w].ver.file.hdr.main
      BY <1>a, <2>1, <2>3, <3>1 DEF MainPw, VaultFile
    <3>3. /\ Request(w) = [op |-> "rollback", old |-> NoPw,
                           new |-> worker[w].ver.file.hdr.main, status |-> "open"]
          /\ Request(w) # Register!NoReq
      BY <2>1, StageRequest
    <3> DEFINE r == [worker[w] EXCEPT !.pc = "report"]
    <3>4. r.pc = "report" /\ r.ver = worker[w].ver /\ r.result = worker[w].result
      BY <1>a DEF WorkerRec
    <3> HIDE DEF r
    <3>5. worker'[w] = r /\ OthersSame(w)
      BY <1>a, <2>3, GoFacts DEF r
    <3>6. /\ Request(w)' = [op |-> "rollback", old |-> NoPw,
                            new |-> worker[w].ver.file.hdr.main, status |-> "granted"]
          /\ Answer(w)' = Answer(w)
      BY <3>4, <3>5 DEF Request, Answer
    <3>7. /\ Request(w).op # "rekey" /\ MainPw' = Request(w).new
          /\ Request(w).status = "open" /\ Request(w)' = [Request(w) EXCEPT !.status = "granted"]
      BY <3>2, <3>3, <3>6
    <3> QED
      BY <1>d, <2>1, <3>3, <3>5, <3>6, <3>7, RegisterGrants
  <2> QED
    BY <1>8, <2>2, <2>3 DEF InstallVersion
<1>9. ASSUME NEW w \in Workers, NEW old \in Passwords, NEW new \in Passwords,
             StartRekey(w, old, new)
      PROVE  Register!Next
  <2> DEFINE r == [Idle("none") EXCEPT !.pc = "save", !.old = old, !.new = new]
             req == [op |-> "rekey", old |-> old, new |-> new, status |-> "open"]
  <2>1. r.pc = "save" /\ r.old = old /\ r.new = new /\ r.result = "none"
    BY DEF Idle
  <2>2. /\ worker[w].pc = "idle" /\ old # new /\ Go(w, r)
        /\ UNCHANGED <<dir, disk, versions>>
    BY <1>9 DEF StartRekey, MayStart
  <2> HIDE DEF r
  <2>3. worker'[w] = r /\ OthersSame(w)
    BY <1>a, <2>2, GoFacts
  <2>4. Request(w)' = req /\ Answer(w)' = "none"
    BY <2>1, <2>3 DEF Request, Answer
  <2>5. Request(w) = Register!NoReq
    BY <2>2, StageRequest
  <2>6. req \in Register!Requests /\ req.old # req.new /\ req.op = "rekey"
    BY <2>2 DEF Register!Requests
  <2> HIDE DEF req
  <2> QED
    BY <1>c, <1>d, <2>2, <2>3, <2>4, <2>5, <2>6, RegisterAsks
<1>10. ASSUME NEW w \in Workers, NEW v \in versions, StartReplaceCurrent(w, v)
       PROVE  Register!Next
  <2> DEFINE r == [Idle("none") EXCEPT !.pc = "restore", !.ver = v]
             req == [op |-> "rollback", old |-> NoPw, new |-> v.file.hdr.main,
                     status |-> "open"]
  <2>1. r.pc = "restore" /\ r.ver = v /\ r.result = "none"
    BY DEF Idle
  <2>2. worker[w].pc = "idle" /\ Go(w, r) /\ UNCHANGED <<dir, disk, versions>>
    BY <1>10 DEF StartReplaceCurrent, MayStart
  <2> HIDE DEF r
  <2>3. worker'[w] = r /\ OthersSame(w)
    BY <1>a, <2>2, GoFacts
  <2>4. Request(w)' = req /\ Answer(w)' = "none"
    BY <2>1, <2>3 DEF Request, Answer
  <2>5. Request(w) = Register!NoReq
    BY <2>2, StageRequest
  <2>6. v.file.hdr.main \in Passwords \cup {NoPw} /\ v.file.hdr.main \in MainPws
    BY DEF SafeInv, TypeInv, TypeOK, Version, File, Header, MainPws
  <2>7. req \in Register!Requests /\ req.op = "rollback" /\ req.new \in MainPws
    BY <2>6 DEF Register!Requests
  <2> HIDE DEF req
  <2> QED
    BY <1>c, <1>d, <2>2, <2>3, <2>4, <2>5, <2>7, RegisterAsks
<1>11. ASSUME NEW v \in versions, DropVersion(v) PROVE Register!Next
  <2>1. versions' = versions \ {v} /\ UNCHANGED <<dir, disk, worker>>
    BY <1>11 DEF DropVersion
  <2>2. MainPws' \subseteq MainPws \cup {MainPw, NoPw}
    BY <2>1 DEF MainPws
  <2>3. \A u \in Workers : Request(u)' = Request(u) /\ Answer(u)' = Answer(u)
    BY <2>1 DEF Request, Answer
  <2> QED
    BY <1>c, <2>1, <2>2, <2>3, RegisterArchives
<1>12. ASSUME Crash PROVE Register!Next
  <2>1. UNCHANGED <<dir, disk, versions>> /\ worker' = [u \in Workers |-> Idle("none")]
    BY <1>12 DEF Crash
  <2>2. \A u \in Workers : worker'[u].pc = "idle" /\ worker'[u].result = "none"
    BY <2>1 DEF Idle
  <2>3. \A u \in Workers : Request(u)' = Register!NoReq /\ Answer(u)' = "none"
    BY <2>2, OverFacts DEF Results
  <2> QED
    BY <1>c, <1>d, <2>1, <2>3, RegisterForgets
<1>13. ASSUME UNCHANGED <<dir, disk, worker, versions>> PROVE [Register!Next]_Register!rvars
  <2>1. \A u \in Workers : Request(u)' = Request(u) /\ Answer(u)' = Answer(u)
    BY <1>13 DEF Request, Answer
  <2> QED
    BY <1>c, <1>d, <1>f, <1>13, <2>1
<1>14. CASE ToggleVersioning \/ RequestClose \/ Restart \/ UNCHANGED vars
  BY <1>13, <1>14 DEF ToggleVersioning, RequestClose, Restart, vars
<1> QED
  BY <1>1, <1>2, <1>3, <1>4, <1>5, <1>6, <1>7, <1>8, <1>9, <1>10, <1>11, <1>12, <1>14, <1>15
     DEF Next, WorkerStep

\* Initially the register holds the password the vault was made with.
LEMMA RegisterInitially == Init => Register!Init
<1> SUFFICES ASSUME Init PROVE Register!Init
  OBVIOUS
<1>1. PICK p \in Passwords, i \in Inodes :
        /\ dir = [vault |-> i, tmp |-> 0]
        /\ disk = [j \in Inodes |-> IF j = i THEN NewVault(p) ELSE Empty]
        /\ worker = [w \in Workers |-> Idle("none")]
        /\ versions = {}
  BY DEF Init
<1>2. VaultFile.hdr.main \in Passwords
  BY <1>1 DEF VaultFile, NewVault
<1>3. \A w \in Workers : Request(w) = Register!NoReq /\ Answer(w) = "none"
  BY <1>1 DEF Request, Answer, Idle, Register!NoReq
<1>4. [w \in Workers |-> Request(w)] = [w \in Workers |-> Register!NoReq]
  BY <1>3 DEF Register!NoReq
<1>5. [w \in Workers |-> Answer(w)] = [w \in Workers |-> "none"]
  BY <1>3
<1> QED
  BY <1>1, <1>2, <1>4, <1>5 DEF Register!Init

\* To the outside the vault is a register of one password: whatever steps a re-key
\* or a roll-back takes, it changes the password at once, before it answers, or
\* not at all, and a re-key only for who gave the password in force; `complete' is
\* never said of a vault that has not changed, `wrong' or `cancelled' never of one
\* that has, while `failed' may be said of either
\* (_rekey_worker, rekey_vault, _replace_current_worker, replace_current).
THEOREM VaultIsARegister ==
    ASSUME Exclusive
    PROVE  Spec => RegisterSpec
<1>1. SafeInv /\ [Next]_vars => [Register!Next]_Register!rvars
  BY RegisterStep
<1> QED
  BY SafeAlways, RegisterInitially, <1>1, PTL DEF Spec, RegisterSpec, Register!Spec


(***************************************************************************)
(* The ladder                                                              *)
(***************************************************************************)

\* Rounding up to whole steps reaches the size and less than a step more
\* (the branch for large targets of _calculate_container_size).
LEMMA WholeStepsBounds ==
    ASSUME NEW t \in Nat
    PROVE  /\ WholeSteps(t) \in Nat
           /\ t <= WholeSteps(t) /\ WholeSteps(t) < t + BigStep
<1> DEFINE a == t + BigStep - 1
           q == a \div BigStep
<1>1. BigStep \in Nat \ {0}
  BY LadderAssumption
<1>2. a \in Nat
  BY <1>1
<1>3. q \in Nat /\ a = q * BigStep + (a % BigStep) /\ (a % BigStep) \in 0..(BigStep - 1)
  BY <1>1, <1>2
<1>4. q * BigStep \in Nat
  BY <1>1, <1>3
<1>. QED
  BY <1>1, <1>3, <1>4 DEF WholeSteps

\* The first rung of a large target holds it; that of any target has room for
\* a hidden mini-header (_calculate_container_size).
LEMMA FirstRungBounds ==
    ASSUME NEW t \in Nat
    PROVE  /\ FirstRung(t) \in Nat
           /\ t <= BigFrom => FirstRung(t) = Mib
           /\ t > BigFrom => t <= FirstRung(t) /\ FirstRung(t) < t + BigStep
           /\ FirstRung(t) > MiniHeader
<1>1. WholeSteps(t) \in Nat /\ t <= WholeSteps(t) /\ WholeSteps(t) < t + BigStep
  BY WholeStepsBounds
<1>2. CASE t > BigFrom
  <2>1. PICK q \in Int : WholeSteps(t) = q * BigStep
    BY LadderAssumption DEF WholeSteps
  <2>2. t > 0 /\ BigStep \in Nat \ {0}
    BY <1>2, LadderAssumption
  <2>3. q > 0
    BY <1>1, <2>1, <2>2
  <2>4. q * BigStep >= BigStep
    BY <2>2, <2>3
  <2>. QED
    BY <1>1, <1>2, <2>1, <2>4, LadderAssumption, LayoutAssumption DEF FirstRung
<1>3. CASE ~(t > BigFrom)
  BY <1>3, LadderAssumption, LayoutAssumption DEF FirstRung
<1>. QED
  BY <1>2, <1>3

(***************************************************************************)
(* The header's digits                                                     *)
(***************************************************************************)

\* A larger size has no fewer digits, so a larger container has no shorter
\* header (write_header).
LEMMA DigitsGrow ==
    ASSUME NEW m \in Nat, NEW n \in Nat, m <= n
    PROVE  Digits(m) \in Nat /\ Digits(n) \in Nat /\ Digits(m) <= Digits(n)
<1> DEFINE M == {p \in PowersOfTen : p <= m}
           N == {p \in PowersOfTen : p <= n}
<1>1. PowersOfTen \subseteq Nat /\ IsFiniteSet(PowersOfTen)
  BY LayoutAssumption
<1>2. M \subseteq N /\ N \subseteq PowersOfTen
  <2>1. ASSUME NEW p \in PowersOfTen, p <= m PROVE p <= n
    <3>1. p \in Nat
      BY <1>1
    <3>. QED
      BY <2>1, <3>1
  <2>. QED
    BY <2>1
<1>3. IsFiniteSet(N)
  BY <1>1, <1>2, FS_Subset
<1>4. IsFiniteSet(M) /\ Cardinality(M) <= Cardinality(N)
  BY <1>2, <1>3, FS_Subset
<1>5. Cardinality(M) \in Nat /\ Cardinality(N) \in Nat
  BY <1>3, <1>4, FS_CardinalityType
<1>. QED
  BY <1>4, <1>5 DEF Digits

(***************************************************************************)
(* The invariant                                                           *)
(***************************************************************************)

Jobs == [kind: {"normal", "hidden"}, body: Bodies, section: Sections,
         floor: Floors, estimate: Estimates, hash: Hashes]

WriterStages == {"start", "fix", "write", "size", "decoy", "place", "hidden", "done", "failed"}

\* The rung in work: large targets are never climbed to.
LadderInv ==
    /\ target > BigFrom => Settled
    /\ bucket > MiniHeader
    /\ PaddingBounded

\* A hidden writer's container never shrinks, so that what earlier rounds have
\* written ends before the decoy of this one, and the decoy before the place.
PlaceInv ==
    job.kind = "hidden" =>
        /\ pc \notin {"fix", "write"}
        /\ pc \in {"start", "size", "decoy", "place"} => size <= PrePad(container)
        /\ pc = "start" => container = 0
        /\ pc = "size" => target > container
        /\ pc \in {"decoy", "place", "hidden", "done"} => container > MiniHeader
        /\ pc \in {"place", "hidden", "done"} => decoyEnd = PrePad(container)
        /\ pc = "place" => target >= decoyEnd
        /\ pc \in {"hidden", "done"} =>
              hiddenAt = OffsetIn(container) /\ Fits(hiddenAt)
        /\ pc = "hidden" => size <= container
        /\ pc = "done" => size = container

\* The normal writer measures within its rounds.
RoundInv == pc = "fix" => rounds < FixRounds

LayoutInv == LayoutTypeOK /\ LadderInv /\ PlaceInv /\ RoundInv

\* Sizes are numbers.
LEMMA Sizes ==
    ASSUME LayoutTypeOK
    PROVE  /\ job.body \in Nat /\ job.section \in Nat /\ job.floor \in Nat
           /\ job.estimate \in Nat /\ job.hash \in Nat
           /\ job.kind \in {"normal", "hidden"}
           /\ target \in Nat /\ bucket \in Nat /\ container \in Nat
           /\ decoyEnd \in Nat /\ size \in Nat /\ rounds \in Nat
<1>1. job \in Jobs
  BY DEF LayoutTypeOK, Jobs
<1>2. /\ job.body \in Bodies /\ job.section \in Sections /\ job.floor \in Floors
      /\ job.estimate \in Estimates /\ job.hash \in Hashes
      /\ job.kind \in {"normal", "hidden"}
  BY <1>1 DEF Jobs
<1>3. {target, bucket, container, decoyEnd, size} \subseteq Nat
  BY DEF LayoutTypeOK
<1>4. Larger(FixRounds, MaxRounds) \in Nat
  BY LayoutAssumption DEF Larger
<1>5. rounds \in Nat
  BY <1>4 DEF LayoutTypeOK
<1>. QED
  BY <1>2, <1>3, <1>5, LayoutAssumption

\* The header with any size in it ends at a number, a larger one no earlier.
LEMMA PrePadGrows ==
    ASSUME LayoutTypeOK, NEW m \in Nat, NEW n \in Nat, m <= n
    PROVE  PrePad(m) \in Nat /\ PrePad(n) \in Nat /\ PrePad(m) <= PrePad(n)
  BY Sizes, DigitsGrow DEF PrePad

\* The function is asked for a number of units (_calculate_container_size).
LEMMA Asked ==
    ASSUME LayoutTypeOK, NEW total \in Nat, NEW next, Measure(total, next)
    PROVE  /\ target' \in Nat /\ target' >= total
           /\ bucket' \in Nat
           /\ LadderInv'
           /\ pc' = next
<1>1. job.floor * Mib \in Nat
  BY Sizes, LadderAssumption
<1>2. target' \in Nat /\ target' >= total
  BY <1>1 DEF Measure, Ask, Target, Larger
<1>3. bucket' = FirstRung(target') /\ pc' = next
  BY DEF Measure, Ask
<1>4. /\ FirstRung(target') \in Nat
      /\ target' <= BigFrom => FirstRung(target') = Mib
      /\ target' > BigFrom => target' <= FirstRung(target') /\ FirstRung(target') < target' + BigStep
      /\ FirstRung(target') > MiniHeader
  BY <1>2, FirstRungBounds
<1>5. {Mib, BigFrom, BigStep} \subseteq Nat
  BY LadderAssumption
<1>6. LadderInv'
  BY <1>2, <1>3, <1>4, <1>5 DEF LadderInv, Settled, PaddingBounded
<1>. QED
  BY <1>2, <1>3, <1>4, <1>6

\* A rung below the target is at most a quarter of it below the next
\* (the loop of _calculate_container_size).
LEMMA AscendLow ==
    ASSUME LayoutTypeOK, LadderInv, Ascend
    PROVE  bucket' \in Nat /\ target' = target /\ LadderInv'
<1>1. target \in Nat /\ bucket \in Nat /\ bucket < target
  BY Sizes DEF Ascend, Settled
<1>2. bucket' = bucket + (bucket + 3) \div 4 /\ target' = target
  BY DEF Ascend, NextRung
<1>3. BigFrom \in Nat /\ BigStep \in Nat /\ MiniHeader \in Nat /\ Mib \in Nat
  BY LadderAssumption, LayoutAssumption
<1>4. target <= BigFrom
  BY <1>1, <1>3 DEF LadderInv, Ascend
<1>5. bucket' - target <= target \div 4
  BY <1>1, <1>2
<1>6. bucket' \in Nat /\ bucket' >= bucket
  BY <1>1, <1>2
<1>. QED
  BY <1>1, <1>2, <1>3, <1>4, <1>5, <1>6 DEF LadderInv, Settled, PaddingBounded

(***************************************************************************)
(* Each step                                                               *)
(***************************************************************************)

LEMMA LayoutInitially == LayoutInit => LayoutInv
<1> SUFFICES ASSUME LayoutInit PROVE LayoutInv
  OBVIOUS
<1>1. /\ MiniHeader \in Nat /\ Mib \in Nat /\ BigFrom \in Nat /\ MiniHeader < Mib
      /\ FixRounds \in Nat /\ MaxRounds \in Nat
  BY LadderAssumption, LayoutAssumption
<1>2. Larger(FixRounds, MaxRounds) \in Nat
  BY <1>1 DEF Larger
<1>3. LayoutTypeOK
  BY <1>1, <1>2 DEF LayoutInit, LayoutTypeOK, None
<1>4. LadderInv
  BY <1>1 DEF LayoutInit, LadderInv, Settled, PaddingBounded
<1>5. PrePad(0) \in Nat
  BY <1>3, PrePadGrows
<1>6. PlaceInv
  BY <1>5 DEF LayoutInit, PlaceInv
<1>. QED
  BY <1>3, <1>4, <1>6 DEF LayoutInv, RoundInv, LayoutInit

\* The steps of the normal writer keep the invariant: types and the ladder are
\* all that it says of them.
LEMMA NormalStep ==
    ASSUME LayoutInv, Probe \/ Fix \/ WriteNormal
    PROVE  LayoutInv'
<1>1. LayoutTypeOK /\ LadderInv /\ PlaceInv /\ RoundInv
  BY DEF LayoutInv
<1>2. FixRounds \in Nat /\ MaxRounds \in Nat /\ PrePad(container) \in Nat
  BY <1>1, Sizes, PrePadGrows, LayoutAssumption
<1>3. Larger(FixRounds, MaxRounds) \in Nat /\ FixRounds <= Larger(FixRounds, MaxRounds)
  BY <1>2 DEF Larger
<1>4. CASE Probe
  <2>1. job' = job /\ UNCHANGED <<container, decoyEnd, hiddenAt, size, rounds>>
        /\ job.kind = "normal"
    BY <1>4 DEF Probe
  <2>2. CASE Measure(PrePad(container), "fix")
    <3>1. target' \in Nat /\ bucket' \in Nat /\ LadderInv' /\ pc' = "fix"
      BY <1>1, <1>2, <2>2, Asked
    <3>2. rounds < FixRounds
      BY <1>4, <2>2, <3>1 DEF Probe
    <3>. QED
      BY <1>1, <2>1, <3>1, <3>2 DEF LayoutInv, LayoutTypeOK, PlaceInv, RoundInv
  <2>3. CASE pc' = "write" /\ UNCHANGED <<target, bucket>>
    BY <1>1, <2>1, <2>3
    DEF LayoutInv, LayoutTypeOK, PlaceInv, RoundInv, LadderInv, Settled, PaddingBounded
  <2>. QED
    BY <1>4, <2>2, <2>3 DEF Probe
<1>5. CASE Fix
  <2>1. rounds' \in 0..Larger(FixRounds, MaxRounds)
    BY <1>1, <1>2, <1>3, <1>5, Sizes DEF Fix, RoundInv
  <2>2. /\ container' = bucket /\ UNCHANGED <<job, target, bucket, decoyEnd, hiddenAt, size>>
        /\ pc = "fix" /\ pc' \in {"write", "start"}
    BY <1>5 DEF Fix
  <2>3. LayoutTypeOK'
    BY <1>1, <2>1, <2>2 DEF LayoutTypeOK
  <2>. QED
    BY <1>1, <2>2, <2>3
    DEF LayoutInv, PlaceInv, RoundInv, LadderInv, Settled, PaddingBounded
<1>6. CASE WriteNormal
  <2>1. Larger(PrePad(container), container) \in Nat
    BY <1>1, <1>2, Sizes DEF Larger
  <2>2. LayoutTypeOK'
    BY <1>1, <1>2, <1>6, <2>1 DEF WriteNormal, LayoutTypeOK
  <2>3. LadderInv' /\ PlaceInv' /\ RoundInv'
    BY <1>1, <1>6 DEF WriteNormal, PlaceInv, RoundInv, LadderInv, Settled, PaddingBounded
  <2>. QED
    BY <2>2, <2>3 DEF LayoutInv
<1>. QED
  BY <1>4, <1>5, <1>6

\* The place is a number as soon as the file is longer than a mini-header
\* (_derive_hidden_offset).
LEMMA OffsetType ==
    ASSUME LayoutTypeOK, NEW c \in Nat, c > MiniHeader
    PROVE  OffsetIn(c) \in Nat
<1>1. c - MiniHeader \in Nat \ {0} /\ ~(c <= MiniHeader) /\ job.hash \in Nat
  BY Sizes, LayoutAssumption
<1>. QED
  BY <1>1 DEF OffsetIn

\* Asking for the first size, and taking it.
LEMMA SizeStep ==
    ASSUME LayoutInv, FirstSize \/ TakeSize
    PROVE  LayoutInv'
<1>1. LayoutTypeOK /\ LadderInv /\ PlaceInv /\ RoundInv
  BY DEF LayoutInv
<1>2. CASE FirstSize
  <2>1. /\ UNCHANGED <<job, container, decoyEnd, hiddenAt, size, rounds>>
        /\ pc = "start" /\ job.kind = "hidden"
        /\ Measure(Larger(job.estimate, 1), "size")
    BY <1>2 DEF FirstSize
  <2>2. Larger(job.estimate, 1) \in Nat /\ Larger(job.estimate, 1) > 0
    BY <1>1, Sizes DEF Larger
  <2>3. /\ target' \in Nat /\ target' >= Larger(job.estimate, 1) /\ bucket' \in Nat
        /\ LadderInv' /\ pc' = "size"
    BY <1>1, <2>1, <2>2, Asked
  <2>4. target' > 0
    BY <2>2, <2>3
  <2>5. LayoutTypeOK'
    BY <1>1, <2>1, <2>3 DEF LayoutTypeOK
  <2>6. PrePad(container)' = PrePad(container)
    BY <2>1 DEF PrePad, Digits
  <2>. QED
    BY <1>1, <2>1, <2>3, <2>4, <2>5, <2>6 DEF LayoutInv, PlaceInv, RoundInv
<1>3. CASE TakeSize
  <2>1. /\ UNCHANGED <<job, target, bucket, decoyEnd, hiddenAt, size, rounds>>
        /\ pc = "size" /\ pc' = "decoy" /\ container' = bucket /\ Settled
    BY <1>3 DEF TakeSize
  <2>2. LayoutTypeOK' /\ LadderInv' /\ RoundInv'
    BY <1>1, <2>1 DEF LayoutTypeOK, LadderInv, Settled, PaddingBounded, RoundInv
  <2>3. ASSUME job.kind = "hidden" PROVE size <= PrePad(bucket)
    <3>1. container \in Nat /\ bucket \in Nat /\ container <= bucket /\ size \in Nat
      BY <1>1, <2>1, <2>3, Sizes DEF PlaceInv, Settled
    <3>2. PrePad(container) \in Nat /\ PrePad(bucket) \in Nat /\ PrePad(container) <= PrePad(bucket)
      BY <1>1, <3>1, PrePadGrows
    <3>. QED
      BY <1>1, <2>1, <2>3, <3>1, <3>2 DEF PlaceInv
  <2>4. PrePad(container)' = PrePad(bucket)
    BY <2>1 DEF PrePad, Digits
  <2>. QED
    BY <1>1, <2>1, <2>2, <2>3, <2>4 DEF LayoutInv, PlaceInv, LadderInv
<1>. QED
  BY <1>2, <1>3

\* The decoy ends after all that earlier rounds have written.
LEMMA DecoyStep ==
    ASSUME LayoutInv, WriteDecoy \/ GiveUp
    PROVE  LayoutInv'
<1>1. LayoutTypeOK /\ LadderInv /\ PlaceInv /\ RoundInv
  BY DEF LayoutInv
<1>2. FixRounds \in Nat /\ MaxRounds \in Nat /\ PrePad(container) \in Nat /\ Slack \in Nat
  BY <1>1, Sizes, PrePadGrows, LayoutAssumption
<1>3. Larger(FixRounds, MaxRounds) \in Nat /\ MaxRounds <= Larger(FixRounds, MaxRounds)
  BY <1>2 DEF Larger
<1>4. CASE WriteDecoy
  <2> DEFINE need == Larger(decoyEnd' + job.section + Slack, job.estimate)
  <2>1. /\ UNCHANGED <<job, container, hiddenAt>>
        /\ pc = "decoy" /\ rounds < MaxRounds /\ rounds' = rounds + 1
        /\ decoyEnd' = PrePad(container)
        /\ size' = Larger(size, PrePad(container))
        /\ Measure(need, "place")
    BY <1>4 DEF WriteDecoy
  <2>2. need \in Nat /\ need >= PrePad(container)
    BY <1>1, <1>2, <2>1, Sizes DEF Larger
  <2>3. /\ target' \in Nat /\ target' >= need /\ bucket' \in Nat
        /\ LadderInv' /\ pc' = "place"
    BY <1>1, <2>1, <2>2, Asked
  <2>4. rounds' \in 0..Larger(FixRounds, MaxRounds)
    BY <1>1, <1>2, <1>3, <2>1, Sizes
  <2>5. size' \in Nat
    BY <1>1, <1>2, <2>1, Sizes DEF Larger
  <2>6. LayoutTypeOK'
    BY <1>1, <1>2, <2>1, <2>3, <2>4, <2>5 DEF LayoutTypeOK
  <2>7. PrePad(container)' = PrePad(container)
    BY <2>1 DEF PrePad, Digits
  <2>8. job.kind = "hidden" => size' <= PrePad(container)
    BY <1>1, <1>2, <2>1, Sizes DEF PlaceInv, Larger
  <2>9. target' >= PrePad(container)
    BY <1>2, <2>2, <2>3
  <2>. QED
    BY <1>1, <2>1, <2>3, <2>6, <2>7, <2>8, <2>9 DEF LayoutInv, PlaceInv, RoundInv
<1>5. CASE GiveUp
  BY <1>1, <1>5
  DEF GiveUp, LayoutInv, LayoutTypeOK, LadderInv, Settled, PaddingBounded, PlaceInv, RoundInv
<1>. QED
  BY <1>4, <1>5

\* The place is taken in the container it was computed for, which has room for
\* the decoy; what is then written ends with the container.
LEMMA PlaceStep ==
    ASSUME LayoutInv, Place \/ WriteHidden
    PROVE  LayoutInv'
<1>1. LayoutTypeOK /\ LadderInv /\ PlaceInv /\ RoundInv
  BY DEF LayoutInv
<1>2. /\ container \in Nat /\ bucket \in Nat /\ target \in Nat /\ size \in Nat
      /\ decoyEnd \in Nat /\ job.section \in Nat /\ MiniHeader \in Nat
  BY <1>1, Sizes, LayoutAssumption
<1>3. CASE Place
  <2>1. pc = "place" /\ Settled /\ UNCHANGED <<job, decoyEnd, size, rounds>>
    BY <1>3 DEF Place
  <2>2. CASE bucket > container /\ container' = bucket /\ pc' = "decoy"
             /\ UNCHANGED <<target, bucket, hiddenAt>>
    <3>1. LayoutTypeOK' /\ LadderInv' /\ RoundInv'
      BY <1>1, <2>1, <2>2 DEF LayoutTypeOK, LadderInv, Settled, PaddingBounded, RoundInv
    <3>2. PrePad(container) \in Nat /\ PrePad(bucket) \in Nat /\ PrePad(container) <= PrePad(bucket)
      BY <1>1, <1>2, <2>2, PrePadGrows
    <3>3. job.kind = "hidden" => size <= PrePad(bucket)
      BY <1>1, <1>2, <2>1, <3>2 DEF PlaceInv
    <3>4. PrePad(container)' = PrePad(bucket)
      BY <2>1, <2>2 DEF PrePad, Digits
    <3>. QED
      BY <1>1, <2>1, <2>2, <3>1, <3>3, <3>4 DEF LayoutInv, PlaceInv, LadderInv
  <2>3. CASE bucket <= container /\ Fits(OffsetIn(container))
             /\ hiddenAt' = OffsetIn(container) /\ pc' = "hidden"
             /\ UNCHANGED <<target, bucket, container>>
    <3>1. LadderInv' /\ RoundInv'
      BY <1>1, <2>1, <2>3 DEF LadderInv, Settled, PaddingBounded, RoundInv
    <3>2. container > MiniHeader
      BY <1>1, <1>2, <2>3 DEF LadderInv
    <3>3. OffsetIn(container) \in Nat
      BY <1>1, <1>2, <3>2, OffsetType
    <3>4. LayoutTypeOK'
      BY <1>1, <2>1, <2>3, <3>3 DEF LayoutTypeOK
    <3>5. PrePad(container)' = PrePad(container) /\ OffsetIn(container)' = OffsetIn(container)
          /\ Fits(hiddenAt)' = Fits(OffsetIn(container))
      BY <2>1, <2>3 DEF PrePad, Digits, OffsetIn, Fits
    <3>6. job.kind = "hidden" => size <= container
      BY <1>1, <1>2, <2>1, <2>3 DEF PlaceInv, Settled
    <3>. QED
      BY <1>1, <2>1, <2>3, <3>1, <3>2, <3>4, <3>5, <3>6 DEF LayoutInv, PlaceInv
  <2>4. CASE bucket <= container /\ Measure(container + 1, "size")
             /\ UNCHANGED <<container, hiddenAt>>
    <3>1. target' \in Nat /\ target' >= container + 1 /\ bucket' \in Nat
          /\ LadderInv' /\ pc' = "size"
      BY <1>1, <1>2, <2>4, Asked
    <3>2. LayoutTypeOK'
      BY <1>1, <2>1, <2>4, <3>1 DEF LayoutTypeOK
    <3>3. PrePad(container)' = PrePad(container)
      BY <2>1, <2>4 DEF PrePad, Digits
    <3>4. target' > container
      BY <1>2, <3>1
    <3>. QED
      BY <1>1, <2>1, <2>4, <3>1, <3>2, <3>3, <3>4 DEF LayoutInv, PlaceInv, RoundInv
  <2>. QED
    BY <1>3, <2>2, <2>3, <2>4 DEF Place
<1>4. CASE WriteHidden
  <2>1. /\ pc = "hidden" /\ pc' = "done"
        /\ UNCHANGED <<job, target, bucket, container, decoyEnd, hiddenAt, rounds>>
        /\ size' = Larger(size, Larger(hiddenAt + job.section, container))
    BY <1>4 DEF WriteHidden
  <2>2. hiddenAt \in Int
    BY <1>1 DEF LayoutTypeOK, None
  <2>3. size' \in Nat
    BY <1>2, <2>1, <2>2 DEF Larger
  <2>4. LayoutTypeOK' /\ LadderInv' /\ RoundInv'
    BY <1>1, <2>1, <2>3 DEF LayoutTypeOK, LadderInv, Settled, PaddingBounded, RoundInv
  <2>5. PrePad(container)' = PrePad(container) /\ OffsetIn(container)' = OffsetIn(container)
        /\ Fits(hiddenAt)' = Fits(hiddenAt)
    BY <2>1 DEF PrePad, Digits, OffsetIn, Fits
  <2>6. job.kind = "hidden" => size' = container
    BY <1>1, <1>2, <2>1, <2>2 DEF PlaceInv, Fits, Larger
  <2>. QED
    BY <1>1, <2>1, <2>4, <2>5, <2>6 DEF LayoutInv, PlaceInv
<1>. QED
  BY <1>3, <1>4

\* While the function runs, and when nothing happens.
LEMMA ClimbStep ==
    ASSUME LayoutInv, Climb \/ UNCHANGED layoutVars
    PROVE  LayoutInv'
<1>1. LayoutTypeOK /\ LadderInv /\ PlaceInv /\ RoundInv
  BY DEF LayoutInv
<1>2. UNCHANGED <<job, pc, container, decoyEnd, hiddenAt, size, rounds>>
  BY DEF Climb, layoutVars
<1>3. bucket' \in Nat /\ target' = target /\ LadderInv'
  BY <1>1, Sizes, AscendLow DEF Climb, layoutVars, LadderInv, Settled, PaddingBounded
<1>4. LayoutTypeOK' /\ RoundInv'
  BY <1>1, <1>2, <1>3 DEF LayoutTypeOK, RoundInv
<1>5. PrePad(container)' = PrePad(container) /\ OffsetIn(container)' = OffsetIn(container)
      /\ Fits(hiddenAt)' = Fits(hiddenAt)
  BY <1>2 DEF PrePad, Digits, OffsetIn, Fits
<1>. QED
  BY <1>1, <1>2, <1>3, <1>4, <1>5 DEF LayoutInv, PlaceInv

\* What holds at each stage of both writers, for any ladder, sizes and hashes
\* (encrypt_stream, encrypt_hidden_vault).
THEOREM LayoutInvariant == LayoutSpec => []LayoutInv
<1>1. LayoutInit => LayoutInv
  BY LayoutInitially
<1>2. LayoutInv /\ [LayoutNext]_layoutVars => LayoutInv'
  BY NormalStep, SizeStep, DecoyStep, PlaceStep, ClimbStep DEF LayoutNext
<1>. QED
  BY <1>1, <1>2, PTL DEF LayoutSpec

(***************************************************************************)
(* Theorems                                                                *)
(***************************************************************************)

\* Types, and the bounds of both writers' rounds (encrypt_stream,
\* encrypt_hidden_vault).
THEOREM LayoutTypeCorrect == LayoutSpec => []LayoutTypeOK
  BY LayoutInvariant, PTL DEF LayoutInv

\* Whatever the ladder and the size, padding costs at most a quarter of it, or
\* a step where steps are taken (_calculate_container_size).
THEOREM PaddingStaysBounded == LayoutSpec => []PaddingBounded
  BY LayoutInvariant, PTL DEF LayoutInv, LadderInv

\* Wherever the hash says, the hidden compartment neither overwrites the decoy
\* nor runs past the container (encrypt_hidden_vault).
THEOREM CompartmentsApart == LayoutSpec => []Apart
<1>1. LayoutInv => Apart
  BY DEF LayoutInv, PlaceInv, Fits, Apart
<1>. QED
  BY <1>1, LayoutInvariant, PTL

\* The reader, who knows no more than the password and the length of the file,
\* looks where the writer has put the mini-header (_derive_hidden_offset).
THEOREM ReaderFindsHidden == LayoutSpec => []ReaderFinds
<1>1. LayoutInv => ReaderFinds
  BY DEF LayoutInv, PlaceInv, ReaderFinds
<1>. QED
  BY <1>1, LayoutInvariant, PTL

(***************************************************************************)
(* The size in the header                                                  *)
(*                                                                         *)
(* The normal writer's loop asks for a size, puts it into the header, and  *)
(* asks again, since the header may have become longer.  It must come to   *)
(* rest before its rounds are over.                                        *)
(***************************************************************************)

\* For bytes: no power of ten lies between 10 GiB and 12.5 GiB, where the ladder
\* may end beyond the answer to a larger target, and five lie between 1 MiB and
\* a terabyte, which is as far as eight rounds are shown to suffice.
FewDigits ==
    /\ Mib <= BigFrom
    /\ \A p \in PowersOfTen : ~(BigFrom < p /\ p <= NextRung(BigFrom))
    /\ Cardinality({p \in PowersOfTen : p > Mib}) + 3 <= FixRounds

\* The rungs: the least set with the first rung and with the next of each.
Climbs(S) == Mib \in S /\ \A b \in S : NextRung(b) \in S
Rungs == {r \in Nat : \A S \in SUBSET Nat : Climbs(S) => r \in S}

\* The rung next to a number is a larger one, unless the number is 0.
LEMMA NextGrows ==
    ASSUME NEW m \in Nat, NEW n \in Nat, m <= n
    PROVE  NextRung(m) \in Nat /\ m <= NextRung(m) /\ NextRung(m) <= NextRung(n)
<1>1. (m + 3) \div 4 \in Nat /\ (n + 3) \div 4 \in Nat /\ (m + 3) \div 4 <= (n + 3) \div 4
  OBVIOUS
<1>. QED
  BY <1>1 DEF NextRung

\* The rungs are closed, and whatever holds of the first and is inherited by the
\* next holds of all.
LEMMA RungsClimb ==
    /\ Climbs(Rungs) /\ Rungs \subseteq Nat
    /\ \A S \in SUBSET Nat : Climbs(S) => Rungs \subseteq S
<1>1. Mib \in Nat
  BY LadderAssumption
<1>2. Mib \in Rungs
  BY <1>1 DEF Rungs, Climbs
<1>3. ASSUME NEW b \in Rungs PROVE NextRung(b) \in Rungs
  <2>1. NextRung(b) \in Nat
    BY NextGrows DEF Rungs
  <2>2. ASSUME NEW S \in SUBSET Nat, Climbs(S) PROVE NextRung(b) \in S
    BY <2>2 DEF Rungs, Climbs
  <2>. QED
    BY <2>1, <2>2 DEF Rungs
<1>. QED
  BY <1>2, <1>3 DEF Climbs, Rungs

\* No rung is below the first.
LEMMA FirstIsLeast == \A r \in Rungs : Mib <= r
<1> DEFINE S == {r \in Nat : Mib <= r}
<1>1. Mib \in Nat
  BY LadderAssumption
<1>2. Mib \in S
  BY <1>1
<1>3. ASSUME NEW b \in S PROVE NextRung(b) \in S
  <2>1. NextRung(b) \in Nat /\ b <= NextRung(b)
    BY NextGrows
  <2>. QED
    BY <1>1, <2>1
<1>4. Climbs(S) /\ S \in SUBSET Nat
  BY <1>2, <1>3 DEF Climbs
<1>5. Rungs \subseteq S
  BY <1>4, RungsClimb
<1>. QED
  BY <1>5

\* Every rung below y has its next no higher than y.
Below(y) == \A x \in Rungs : x <= y => x = y \/ NextRung(x) <= y

\* Then no rung lies between y and its next.
LEMMA NothingBetween ==
    ASSUME NEW y \in Rungs, Below(y)
    PROVE  \A x \in Rungs : x <= y \/ NextRung(y) <= x
<1> DEFINE S == {x \in Rungs : x <= y \/ NextRung(y) <= x}
<1>1. Rungs \subseteq Nat /\ Climbs(Rungs) /\ NextRung(y) \in Nat
  BY RungsClimb, NextGrows
<1>2. Mib \in S
  BY <1>1, FirstIsLeast DEF Climbs
<1>3. ASSUME NEW b \in S PROVE NextRung(b) \in S
  <2>1. /\ b \in Rungs /\ b \in Nat /\ y \in Nat /\ NextRung(b) \in Nat /\ b <= NextRung(b)
        /\ NextRung(b) \in Rungs
    BY <1>1, NextGrows DEF Climbs
  <2>2. CASE b <= y
    <3>1. b = y \/ NextRung(b) <= y
      BY <2>1, <2>2 DEF Below
    <3>. QED
      BY <2>1, <3>1
  <2>3. CASE NextRung(y) <= b
    <3>1. NextRung(y) <= NextRung(b)
      BY <1>1, <2>1, <2>3
    <3>. QED
      BY <2>1, <3>1
  <2>. QED
    BY <2>2, <2>3
<1>4. Climbs(S) /\ S \in SUBSET Nat
  BY <1>1, <1>2, <1>3 DEF Climbs
<1>5. Rungs \subseteq S
  BY <1>4, RungsClimb
<1>. QED
  BY <1>5

\* So the rungs are in a line.
LEMMA InALine == \A y \in Rungs : Below(y)
<1> DEFINE S == {y \in Rungs : Below(y)}
<1>1. Rungs \subseteq Nat /\ Climbs(Rungs)
  BY RungsClimb
<1>2. Mib \in S
  <2>1. ASSUME NEW x \in Rungs, x <= Mib PROVE x = Mib
    BY <1>1, <2>1, FirstIsLeast, LadderAssumption
  <2>. QED
    BY <1>1, <2>1 DEF Below, Climbs
<1>3. ASSUME NEW y \in S PROVE NextRung(y) \in S
  <2>1. /\ y \in Rungs /\ Below(y) /\ y \in Nat
        /\ NextRung(y) \in Rungs /\ NextRung(y) \in Nat /\ y <= NextRung(y)
    BY <1>1, NextGrows DEF Climbs
  <2>2. ASSUME NEW x \in Rungs, x <= NextRung(y)
        PROVE  x = NextRung(y) \/ NextRung(x) <= NextRung(y)
    <3>1. x \in Nat /\ NextRung(x) \in Nat
      BY <1>1, NextGrows
    <3>2. x <= y \/ NextRung(y) <= x
      BY <2>1, NothingBetween
    <3>3. CASE x <= y
      <4>1. x = y \/ NextRung(x) <= y
        BY <2>1, <3>3 DEF Below
      <4>. QED
        BY <2>1, <3>1, <4>1
    <3>4. CASE NextRung(y) <= x
      BY <2>1, <2>2, <3>1, <3>4
    <3>. QED
      BY <3>2, <3>3, <3>4
  <2>. QED
    BY <2>1, <2>2 DEF Below
<1>4. Climbs(S) /\ S \in SUBSET Nat
  BY <1>1, <1>2, <1>3 DEF Climbs
<1>5. Rungs \subseteq S
  BY <1>4, RungsClimb
<1>. QED
  BY <1>5

\* What the function has come to on its way to a target t, and its answer.
OnTheWay(t, b) ==
    IF t > BigFrom
      THEN b = WholeSteps(t)
      ELSE b \in Rungs /\ (b = Mib \/ \E a \in Rungs : a < t /\ b = NextRung(a))

AnswerIs(t, b) == OnTheWay(t, b) /\ t <= b

\* An answer on the ladder is the lowest rung that holds the target.
LEMMA LowestRung ==
    ASSUME NEW t \in Nat, t <= BigFrom, NEW b, OnTheWay(t, b),
           NEW r \in Rungs, t <= r
    PROVE  b <= r
<1>1. BigFrom \in Nat /\ ~(t > BigFrom) /\ r \in Nat
  BY LadderAssumption, RungsClimb
<1>2. CASE b = Mib
  BY <1>2, FirstIsLeast
<1>3. CASE \E a \in Rungs : a < t /\ b = NextRung(a)
  <2>1. PICK a \in Rungs : a < t /\ b = NextRung(a)
    BY <1>3
  <2>2. a \in Nat
    BY RungsClimb
  <2>3. a <= r /\ a # r
    BY <1>1, <2>1, <2>2
  <2>4. a = r \/ NextRung(a) <= r
    BY <2>3, InALine DEF Below
  <2>. QED
    BY <2>1, <2>3, <2>4
<1>. QED
  BY <1>1, <1>2, <1>3 DEF OnTheWay

\* The function has one answer to a question, a number no less than 1 MiB.
LEMMA OneAnswer ==
    ASSUME NEW t \in Nat, NEW b, NEW c, AnswerIs(t, b), AnswerIs(t, c)
    PROVE  b = c
<1>1. BigFrom \in Nat
  BY LadderAssumption
<1>2. CASE t > BigFrom
  BY <1>2 DEF AnswerIs, OnTheWay
<1>3. CASE t <= BigFrom
  <2>1. b \in Rungs /\ c \in Rungs /\ t <= b /\ t <= c
    BY <1>1, <1>3 DEF AnswerIs, OnTheWay
  <2>2. b <= c /\ c <= b
    BY <1>3, <2>1, LowestRung DEF AnswerIs
  <2>. QED
    BY <2>1, <2>2, RungsClimb
<1>. QED
  BY <1>1, <1>2, <1>3

LEMMA AnswerType ==
    ASSUME NEW t \in Nat, NEW b, AnswerIs(t, b), Mib <= BigFrom
    PROVE  b \in Nat /\ Mib <= b
<1>1. BigFrom \in Nat /\ Mib \in Nat
  BY LadderAssumption
<1>2. CASE t > BigFrom
  BY <1>1, <1>2, WholeStepsBounds DEF AnswerIs, OnTheWay
<1>3. CASE t <= BigFrom
  <2>1. b \in Rungs
    BY <1>1, <1>3 DEF AnswerIs, OnTheWay
  <2>. QED
    BY <2>1, RungsClimb, FirstIsLeast
<1>. QED
  BY <1>1, <1>2, <1>3

\* Whole steps grow with what they hold.
LEMMA WholeStepsGrow ==
    ASSUME NEW m \in Nat, NEW n \in Nat, m <= n
    PROVE  WholeSteps(m) <= WholeSteps(n)
<1>1. BigStep \in Nat \ {0}
  BY LadderAssumption
<1> DEFINE p == (m + BigStep - 1) \div BigStep
           q == (n + BigStep - 1) \div BigStep
<1>2. p \in Int /\ q \in Int /\ p <= q
  BY <1>1
<1>3. q - p \in Nat
  BY <1>2
<1>4. (q - p) * BigStep >= 0
  BY <1>1, <1>3
<1>5. q * BigStep = p * BigStep + (q - p) * BigStep
  BY <1>1, <1>2
<1>. QED
  BY <1>1, <1>2, <1>4, <1>5 DEF WholeSteps

\* A larger target has no shorter header, although its container may be the
\* smaller one where the ladder ends.
LEMMA AnswersKeepDigits ==
    ASSUME FewDigits, NEW m \in Nat, NEW n \in Nat, m <= n,
           NEW b, NEW c, AnswerIs(m, b), AnswerIs(n, c)
    PROVE  Digits(b) <= Digits(c)
<1>1. BigFrom \in Nat /\ Mib \in Nat /\ Mib <= BigFrom
  BY LadderAssumption DEF FewDigits
<1>2. b \in Nat /\ c \in Nat /\ Mib <= b /\ Mib <= c
  BY <1>1, AnswerType
<1>3. CASE b <= c
  BY <1>2, <1>3, DigitsGrow
<1>4. CASE c < b
  <2>1. m <= BigFrom
    <3> SUFFICES ASSUME m > BigFrom PROVE FALSE
      BY <1>1
    <3>1. b = WholeSteps(m) /\ c = WholeSteps(n)
      BY <1>1 DEF AnswerIs, OnTheWay
    <3>2. b <= c
      BY <3>1, WholeStepsGrow
    <3>. QED
      BY <1>2, <1>4, <3>2
  <2>2. n > BigFrom
    <3> SUFFICES ASSUME n <= BigFrom PROVE FALSE
      BY <1>1
    <3>1. c \in Rungs /\ m <= c /\ OnTheWay(m, b)
      BY <1>1, <1>2 DEF AnswerIs, OnTheWay
    <3>2. b <= c
      BY <2>1, <3>1, LowestRung
    <3>. QED
      BY <1>2, <1>4, <3>2
  <2>3. c > BigFrom
    BY <1>1, <1>2, <2>2 DEF AnswerIs
  <2>4. b <= NextRung(BigFrom)
    <3>1. b # Mib
      BY <1>1, <1>2, <1>4, <2>3
    <3>2. PICK a \in Rungs : a < m /\ b = NextRung(a)
      BY <1>1, <2>1, <3>1 DEF AnswerIs, OnTheWay
    <3>3. a \in Nat /\ a <= BigFrom
      BY <1>1, <2>1, <3>2, RungsClimb
    <3>. QED
      BY <1>1, <3>2, <3>3, NextGrows
  <2>5. NextRung(BigFrom) \in Nat
    BY <1>1, NextGrows
  <2>6. ASSUME NEW p \in PowersOfTen PROVE p <= b => p <= c
    <3>1. p \in Nat
      BY LayoutAssumption
    <3>2. ~(BigFrom < p /\ p <= NextRung(BigFrom))
      BY DEF FewDigits
    <3>. QED
      BY <1>1, <1>2, <2>3, <2>4, <2>5, <3>1, <3>2
  <2>7. ASSUME NEW p \in PowersOfTen PROVE p <= c => p <= b
    <3>1. p \in Nat
      BY LayoutAssumption
    <3>. QED
      BY <1>2, <1>4, <3>1
  <2>8. {p \in PowersOfTen : p <= b} = {p \in PowersOfTen : p <= c}
    BY <2>6, <2>7
  <2>9. Digits(b) = Digits(c)
    BY <2>8 DEF Digits
  <2>10. Digits(c) \in Nat
    BY <1>2, DigitsGrow
  <2>. QED
    BY <2>9, <2>10
<1>. QED
  BY <1>2, <1>3, <1>4

\* The digits that a size can have.
LEMMA DigitsBounded ==
    ASSUME NEW n \in Nat
    PROVE  /\ Cardinality({p \in PowersOfTen : p > Mib}) \in Nat
           /\ Digits(n) <= Digits(Mib) + Cardinality({p \in PowersOfTen : p > Mib})
<1> DEFINE N == {p \in PowersOfTen : p <= n}
           L == {p \in PowersOfTen : p <= Mib}
           H == {p \in PowersOfTen : p > Mib}
<1>1. PowersOfTen \subseteq Nat /\ IsFiniteSet(PowersOfTen) /\ Mib \in Nat
  BY LayoutAssumption, LadderAssumption
<1>2. N \subseteq PowersOfTen /\ L \subseteq PowersOfTen /\ H \subseteq PowersOfTen
  OBVIOUS
<1>3. IsFiniteSet(N) /\ IsFiniteSet(L) /\ IsFiniteSet(H)
  BY <1>1, <1>2, FS_Subset
<1>4. ASSUME NEW p \in PowersOfTen PROVE p <= Mib \/ p > Mib
  BY <1>1
<1>5. N \subseteq L \cup H
  BY <1>4
<1>6. L \cap H = {}
  <2>1. ASSUME NEW p \in PowersOfTen PROVE ~(p <= Mib /\ p > Mib)
    BY <1>1
  <2>. QED
    BY <2>1
<1> HIDE DEF N, L, H
<1>7. /\ IsFiniteSet(L \cup H)
      /\ Cardinality(L \cup H) = Cardinality(L) + Cardinality(H) - Cardinality(L \cap H)
  BY <1>3, FS_Union
<1>8. Cardinality(L \cap H) = 0
  BY <1>6, FS_EmptySet
<1>9. Cardinality(N) <= Cardinality(L \cup H)
  BY <1>5, <1>7, FS_Subset
<1>10. Cardinality(N) \in Nat /\ Cardinality(L) \in Nat /\ Cardinality(H) \in Nat
  BY <1>3, FS_CardinalityType
<1>11. Cardinality(N) <= Cardinality(L) + Cardinality(H)
  BY <1>7, <1>8, <1>9, <1>10
<1>12. Digits(n) = Cardinality(N) + 1 /\ Digits(Mib) = Cardinality(L) + 1
  BY DEF Digits, N, L
<1>13. Digits(n) <= Digits(Mib) + Cardinality(H)
  BY <1>10, <1>11, <1>12
<1>. QED
  BY <1>10, <1>13 DEF H

\* The container is the answer for a header with d digits of a size; each round
\* after the second found one digit more at least.
AnswerFor(d) ==
    /\ AnswerIs(Target(job.body + d, job.floor), container)
    /\ d <= Digits(container)
    /\ rounds >= 2 => d + 2 >= Digits(Mib) + rounds

\* What is known of the normal writer's size at each stage.
SizeInv ==
    job.kind = "normal" =>
        /\ pc \in {"start", "fix", "write", "done"}
        /\ pc \in {"start", "fix"} =>
              \/ rounds = 0 /\ container = 0
              \/ rounds > 0 /\ \E d \in Nat : AnswerFor(d)
        /\ pc = "fix" =>
              target = Target(PrePad(container), job.floor) /\ OnTheWay(target, bucket)
        /\ pc = "write" => PrePad(container) <= container
        /\ pc = "done" => size = container

\* A target is a number, no less than what is needed, and grows with it.
LEMMA TargetGrows ==
    ASSUME LayoutTypeOK, NEW m \in Nat, NEW n \in Nat, m <= n
    PROVE  /\ Target(m, job.floor) \in Nat /\ Target(n, job.floor) \in Nat
           /\ m <= Target(m, job.floor)
           /\ Target(m, job.floor) <= Target(n, job.floor)
<1>1. job.floor * Mib \in Nat
  BY Sizes, LadderAssumption
<1>. QED
  BY <1>1 DEF Target, Larger

\* The writer asks once more; it is never out of rounds.
LEMMA ProbeSize ==
    ASSUME FewDigits, LayoutInv, SizeInv, Probe
    PROVE  SizeInv'
<1>1. LayoutTypeOK
  BY DEF LayoutInv
<1>2. /\ pc = "start" /\ job.kind = "normal"
      /\ UNCHANGED <<job, container, decoyEnd, hiddenAt, size, rounds>>
  BY DEF Probe
<1>3. container \in Nat /\ rounds \in Nat /\ FixRounds \in Nat
  BY <1>1, Sizes, LayoutAssumption
<1>4. rounds < FixRounds
  <2> DEFINE C == Cardinality({p \in PowersOfTen : p > Mib})
  <2>1. C \in Nat /\ Digits(container) <= Digits(Mib) + C /\ C + 3 <= FixRounds
    BY <1>3, DigitsBounded DEF FewDigits
  <2>2. Digits(container) \in Nat /\ Digits(Mib) \in Nat
    BY <1>3, DigitsGrow, LadderAssumption
  <2> HIDE DEF C
  <2>3. CASE rounds > 0
    <3>1. PICK d \in Nat : AnswerFor(d)
      BY <1>2, <2>3 DEF SizeInv
    <3>2. d <= Digits(container) /\ (rounds >= 2 => d + 2 >= Digits(Mib) + rounds)
      BY <3>1 DEF AnswerFor
    <3>. QED
      BY <1>3, <2>1, <2>2, <3>2
  <2>. QED
    BY <1>3, <2>1, <2>3
<1>5. /\ target' = Target(PrePad(container), job.floor)
      /\ bucket' = FirstRung(target')
      /\ pc' = "fix"
  BY <1>4 DEF Probe, Measure, Ask
<1>6. OnTheWay(target', bucket')
  BY <1>5, RungsClimb DEF OnTheWay, FirstRung, Climbs
<1>7. PrePad(container)' = PrePad(container)
  BY <1>2 DEF PrePad, Digits
<1>8. ASSUME NEW d \in Nat, AnswerFor(d) PROVE AnswerFor(d)'
  BY <1>2, <1>8 DEF AnswerFor, AnswerIs, OnTheWay, Digits
<1>9. target' = Target(PrePad(container), job.floor)'
  BY <1>2, <1>5, <1>7 DEF Target
<1>10. OnTheWay(target, bucket)'
  BY <1>6 DEF OnTheWay
<1>11. (rounds = 0 /\ container = 0)' \/ (rounds > 0 /\ \E d \in Nat : AnswerFor(d))'
  BY <1>2, <1>8 DEF SizeInv
<1>. QED
  BY <1>5, <1>9, <1>10, <1>11 DEF SizeInv

\* The answer is taken into the header: either it is the one that stands there,
\* or the header has become longer since it was asked.
LEMMA FixSize ==
    ASSUME FewDigits, LayoutInv, SizeInv, Fix
    PROVE  SizeInv'
<1>1. LayoutTypeOK
  BY DEF LayoutInv
<1>2. /\ pc = "fix" /\ target <= bucket
      /\ container' = bucket /\ rounds' = rounds + 1
      /\ pc' = IF bucket = container THEN "write" ELSE "start"
      /\ UNCHANGED <<job, target, bucket, decoyEnd, hiddenAt, size>>
  BY Sizes, <1>1 DEF Fix, Settled
<1>3. /\ container \in Nat /\ bucket \in Nat /\ rounds \in Nat /\ target \in Nat
      /\ job.body \in Nat
  BY <1>1, Sizes
<1> SUFFICES ASSUME job.kind = "normal" PROVE SizeInv'
  BY <1>2 DEF SizeInv
<1> DEFINE e == Digits(container)
<1>4. /\ target = Target(PrePad(container), job.floor) /\ OnTheWay(target, bucket)
      /\ (rounds = 0 /\ container = 0) \/ (rounds > 0 /\ \E d \in Nat : AnswerFor(d))
  BY <1>2 DEF SizeInv
<1>5. AnswerIs(target, bucket)
  BY <1>2, <1>4 DEF AnswerIs
<1>6. e \in Nat /\ PrePad(container) = job.body + e
  BY <1>3, DigitsGrow DEF PrePad
<1>7. PrePad(container) <= target
  BY <1>1, <1>3, <1>4, <1>6, TargetGrows
<1>8. Mib <= bucket /\ Mib \in Nat
  BY <1>3, <1>5, AnswerType, LadderAssumption DEF FewDigits
<1>9. e <= Digits(bucket) /\ (bucket # container /\ rounds >= 1 => e + 2 >= Digits(Mib) + rounds + 1)
  <2>1. CASE rounds = 0 /\ container = 0
    <3>1. e <= Digits(bucket)
      BY <1>3, <2>1, DigitsGrow
    <3>. QED
      BY <2>1, <3>1
  <2>2. CASE rounds > 0 /\ \E d \in Nat : AnswerFor(d)
    <3>1. PICK d \in Nat : AnswerFor(d)
      BY <2>2
    <3> DEFINE t == Target(job.body + d, job.floor)
    <3>2. /\ AnswerIs(t, container) /\ d <= e
          /\ rounds >= 2 => d + 2 >= Digits(Mib) + rounds
      BY <3>1 DEF AnswerFor
    <3>3. job.body + d \in Nat /\ job.body + e \in Nat /\ job.body + d <= job.body + e
      BY <1>3, <1>6, <3>2
    <3>4. t \in Nat /\ t <= target
      BY <1>1, <1>4, <1>6, <3>3, TargetGrows
    <3> HIDE DEF t
    <3>5. e <= Digits(bucket)
      BY <1>3, <1>5, <3>2, <3>4, AnswersKeepDigits
    <3>6. ASSUME bucket # container PROVE d # e
      <4> SUFFICES ASSUME d = e PROVE FALSE
        OBVIOUS
      <4>1. t = target
        BY <1>4, <1>6 DEF t
      <4>2. bucket = container
        BY <1>3, <1>5, <3>2, <4>1, OneAnswer
      <4>. QED
        BY <3>6, <4>2
    <3>7. Mib <= container
      BY <3>2, <3>4, AnswerType DEF FewDigits
    <3>8. Digits(Mib) \in Nat /\ Digits(Mib) <= e
      BY <1>3, <1>8, <3>7, DigitsGrow
    <3>9. ASSUME bucket # container PROVE e + 2 >= Digits(Mib) + rounds + 1
      <4>1. d < e
        BY <1>6, <3>2, <3>6, <3>9
      <4>2. CASE rounds >= 2
        BY <1>3, <1>6, <3>2, <3>8, <4>1, <4>2
      <4>3. CASE rounds < 2
        BY <1>3, <1>6, <3>8, <4>3
      <4>. QED
        BY <1>3, <4>2, <4>3
    <3>. QED
      BY <3>5, <3>9
  <2>. QED
    BY <1>4, <2>1, <2>2
<1>10. job' = job /\ PrePad(container)' = PrePad(bucket)
  BY <1>2 DEF PrePad, Digits
<1>11. CASE bucket = container
  <2>1. PrePad(container)' <= container'
    BY <1>2, <1>3, <1>6, <1>7, <1>10, <1>11
  <2>. QED
    BY <1>2, <1>11, <2>1 DEF SizeInv
<1>12. CASE bucket # container
  <2>1. PICK d \in Nat : d = e
    BY <1>6
  <2>2. AnswerFor(d)'
    <3>1. AnswerIs(Target(job.body + d, job.floor), bucket)
      BY <1>4, <1>5, <1>6, <2>1
    <3>2. Digits(Mib) \in Nat /\ d <= Digits(bucket)
      BY <1>8, <1>9, <2>1, DigitsGrow
    <3>3. rounds + 1 >= 2 => d + 2 >= Digits(Mib) + (rounds + 1)
      BY <1>3, <1>9, <1>12, <2>1, <3>2
    <3>. QED
      BY <1>2, <3>1, <3>2, <3>3 DEF AnswerFor, AnswerIs, OnTheWay, Digits
  <2>3. rounds' > 0 /\ pc' = "start"
    BY <1>2, <1>3, <1>12
  <2>. QED
    BY <1>2, <2>2, <2>3 DEF SizeInv
<1>. QED
  BY <1>11, <1>12

\* While the function runs.
LEMMA ClimbSize ==
    ASSUME LayoutInv, SizeInv, Climb
    PROVE  SizeInv'
<1>1. LayoutTypeOK
  BY DEF LayoutInv
<1>2. /\ UNCHANGED <<job, pc, target, container, decoyEnd, hiddenAt, size, rounds>>
      /\ ~(target <= bucket) /\ bucket' = NextRung(bucket)
  BY <1>1, Sizes DEF Climb, Ascend, Settled
<1>3. target \in Nat /\ bucket \in Nat /\ BigFrom \in Nat
  BY <1>1, Sizes, LadderAssumption
<1>4. ASSUME OnTheWay(target, bucket) PROVE OnTheWay(target, bucket')
  <2>1. ~(target > BigFrom)
    BY <1>2, <1>3, <1>4, WholeStepsBounds DEF OnTheWay
  <2>2. bucket \in Rungs
    BY <1>4, <2>1 DEF OnTheWay
  <2>3. bucket' \in Rungs /\ bucket < target
    BY <1>2, <1>3, <2>2, RungsClimb DEF Climbs
  <2>. QED
    BY <1>2, <2>1, <2>2, <2>3 DEF OnTheWay
<1>5. PrePad(container)' = PrePad(container)
  BY <1>2 DEF PrePad, Digits
<1>6. ASSUME NEW d \in Nat, AnswerFor(d) PROVE AnswerFor(d)'
  BY <1>2, <1>6 DEF AnswerFor, AnswerIs, OnTheWay, Digits
<1>7. (\E d \in Nat : AnswerFor(d)) => (\E d \in Nat : AnswerFor(d))'
  BY <1>6
<1>8. OnTheWay(target, bucket) => OnTheWay(target, bucket)'
  BY <1>2, <1>4 DEF OnTheWay
<1>9. Target(PrePad(container), job.floor)' = Target(PrePad(container), job.floor)
  BY <1>2, <1>5 DEF Target
<1>. QED
  BY <1>2, <1>5, <1>7, <1>8, <1>9 DEF SizeInv

\* What is then written is as long as the header says; the hidden writer's steps
\* are no concern of the normal one.
LEMMA WriteSize ==
    ASSUME LayoutInv, SizeInv,
           \/ WriteNormal
           \/ FirstSize \/ TakeSize \/ WriteDecoy \/ Place \/ GiveUp \/ WriteHidden
    PROVE  SizeInv'
<1>1. LayoutTypeOK
  BY DEF LayoutInv
<1>2. CASE WriteNormal
  <2>1. container \in Nat /\ PrePad(container) \in Nat
    BY <1>1, Sizes, PrePadGrows
  <2>2. /\ pc = "write" /\ pc' = "done" /\ UNCHANGED <<job, container>>
        /\ size' = Larger(PrePad(container), container)
    BY <1>2 DEF WriteNormal
  <2>3. job.kind = "normal" => size' = container
    BY <2>1, <2>2 DEF SizeInv, Larger
  <2>. QED
    BY <2>2, <2>3 DEF SizeInv
<1>3. CASE FirstSize
  BY <1>3 DEF FirstSize, SizeInv
<1>4. CASE TakeSize \/ WriteDecoy \/ Place \/ GiveUp \/ WriteHidden
  <2>1. pc \in {"size", "decoy", "place", "hidden"} /\ job' = job
    BY <1>4 DEF TakeSize, WriteDecoy, Place, GiveUp, WriteHidden
  <2>. QED
    BY <2>1 DEF SizeInv
<1>. QED
  BY <1>2, <1>3, <1>4

\* The size in the header is the size of the file, for normal vaults as for
\* those with a hidden compartment; the eight rounds of the normal writer's loop
\* are enough (encrypt_stream, encrypt_hidden_vault).
THEOREM SizeIsAdvertised ==
    ASSUME FewDigits
    PROVE  LayoutSpec => []SizeAsAdvertised
<1>1. LayoutInit => LayoutInv /\ SizeInv
  <2>1. LayoutInit => SizeInv
    BY DEF LayoutInit, SizeInv
  <2>. QED
    BY <2>1, LayoutInitially
<1>2. LayoutInv /\ SizeInv /\ [LayoutNext]_layoutVars => (LayoutInv /\ SizeInv)'
  <2> SUFFICES ASSUME LayoutInv, SizeInv, [LayoutNext]_layoutVars PROVE LayoutInv' /\ SizeInv'
    OBVIOUS
  <2>1. LayoutInv'
    BY NormalStep, SizeStep, DecoyStep, PlaceStep, ClimbStep DEF LayoutNext
  <2>2. ASSUME UNCHANGED layoutVars PROVE SizeInv'
    <3>1. UNCHANGED <<job, pc, target, bucket, container, size, rounds>>
      BY <2>2 DEF layoutVars
    <3>2. \A d \in Nat : AnswerFor(d)' <=> AnswerFor(d)
      BY <3>1 DEF AnswerFor, AnswerIs, OnTheWay, Digits
    <3>3. PrePad(container)' = PrePad(container)
      BY <3>1 DEF PrePad, Digits
    <3>4. Target(PrePad(container), job.floor)' = Target(PrePad(container), job.floor)
      BY <3>1, <3>3 DEF Target
    <3>5. OnTheWay(target, bucket)' = OnTheWay(target, bucket)
      BY <3>1 DEF OnTheWay
    <3>. QED
      BY <3>1, <3>2, <3>3, <3>4, <3>5 DEF SizeInv
  <2>3. ASSUME LayoutNext PROVE SizeInv'
    BY <2>3, ProbeSize, FixSize, ClimbSize, WriteSize DEF LayoutNext
  <2>. QED
    BY <2>1, <2>2, <2>3
<1>3. LayoutInv /\ SizeInv => SizeAsAdvertised
  <2>1. LayoutInv => job.kind \in {"normal", "hidden"}
    BY Sizes DEF LayoutInv
  <2>. QED
    BY <2>1 DEF LayoutInv, PlaceInv, SizeInv, SizeAsAdvertised
<1>. QED
  BY <1>1, <1>2, <1>3, PTL DEF LayoutSpec
=============================================================================
