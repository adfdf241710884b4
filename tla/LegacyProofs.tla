---------------------------- MODULE LegacyProofs ----------------------------
(***************************************************************************)
(* Proofs about LegacyWindow: for any number of files, threads and of      *)
(* operations, every set of operations made use of, with messages lost,    *)
(* files that cannot be wiped, and the window closed or killed at any      *)
(* time.                                                                   *)
(*                                                                         *)
(* Operations of this window may overlap.  What holds only as long as none *)
(* was started beside another says so itself (~mixed); the invariant Alone *)
(* is what that buys: one worker or one message, and the flag up for it.   *)
(***************************************************************************)
EXTENDS LegacyWindow, TLAPS

Stages == {"none", "next", "pack", "packing", "packing2", "name", "open", "check", "chunk",
           "check2", "commit", "unzip", "wipe", "untrack", "clean", "report", "write",
           "replace", "unlink"}

WorkerRec ==
    [pc: Stages, kind: AllKinds, todo: SUBSET (Files \cup {"vault"}),
     unit: SUBSET (Files \cup Hidden), wipe: BOOLEAN, pw: {"set", "empty"},
     good: BOOLEAN, cancelled: BOOLEAN, name: Names \cup {<<>>}]

TempRec == [zip: {"none", "empty", "plain"}, second: {"none", "zip", "dir", "output"}]

FormRec == [queue: SUBSET Files, typed: BOOLEAN]

VaultRec == [now: {"whole", "partial", "torn"}, tmp: {"none", "whole", "partial", "torn"}]

Running == app \in {"open", "joining", "wiping"}

WindowTypes ==
    /\ is_processing \in BOOLEAN /\ cancel \in BOOLEAN /\ mixed \in BOOLEAN
    /\ dialog \in {"closed", "encrypt", "hide"}
    /\ form \in FormRec
    /\ app \in {"open", "joining", "wiping", "closed", "killed"}
    /\ doomed \subseteq Workers /\ cleared \subseteq Workers

WorkTypes ==
    /\ msg_queue \in Seq(Texts)
    /\ temp \in [Workers -> TempRec]
    /\ tracked \subseteq Workers
    /\ plain \subseteq Files \cup Hidden
    /\ vault \in VaultRec
    /\ lost \in BOOLEAN
    /\ rests \subseteq {"zip", "dir", "output"} /\ failed \in BOOLEAN /\ halfway \in BOOLEAN

\* The stages of each operation.
ShapeOf(r) ==
    /\ r.pc = "none" => r = Idle
    /\ r.pc \in {"pack", "packing", "packing2", "name"} => r.unit # {}
    /\ r.kind \in {"encrypt", "hide"} => r.todo \subseteq Files
    /\ r.pc \in {"pack", "packing", "name", "wipe"} => r.kind \in {"encrypt", "hide"}
    /\ r.pc = "packing2" => r.kind = "hide"
    /\ r.pc = "next" => r.kind \in {"encrypt", "decrypt", "extract"}
    /\ r.pc = "unzip" => r.kind \in {"decrypt", "extract"}
    /\ r.pc \in {"write", "replace", "unlink"} => r.kind = "rekey"
    /\ r.kind = "rekey" => r.pc \in {"open", "write", "replace", "report", "unlink"}
    /\ r.pc = "open" => r.kind \in {"rekey", "decrypt", "extract"}
    /\ r.kind = "other" => r.pc \in {"none", "report"}

\* Threads, messages and the dialog go with the process.
Shape ==
    /\ worker \in [Workers -> WorkerRec]
    /\ \A w \in Workers : ShapeOf(worker[w])
    /\ dialog = "hide" => Hidden # {}
    /\ ~Running => /\ worker = [w \in Workers |-> Idle]
                   /\ msg_queue = <<>> /\ dialog = "closed"

TypeInv == WindowTypes /\ WorkTypes /\ Shape

-----------------------------------------------------------------------------
(* What a worker's step does to its record *)

\* From stage p to stage q, in an operation of kind k.
Edge(k, p, q) ==
    \/ p = "next" /\ q = "report"
    \/ p = "next" /\ q = "pack" /\ k = "encrypt"
    \/ p = "next" /\ q = "open" /\ k \in {"decrypt", "extract"}
    \/ p = "pack" /\ q \in {"packing", "untrack"}
    \/ p = "packing" /\ q = "untrack"
    \/ p = "packing" /\ q = "name" /\ k = "encrypt"
    \/ p = "packing" /\ q = "packing2" /\ k = "hide"
    \/ p = "packing2" /\ q \in {"name", "untrack"}
    \/ p = "name" /\ q \in {"check", "untrack"}
    \/ p = "open" /\ q \in {"check", "untrack"} /\ k \in {"decrypt", "extract"}
    \/ p = "open" /\ q \in {"write", "report"} /\ k = "rekey"
    \/ p = "check" /\ q \in {"chunk", "untrack"}
    \/ p = "chunk" /\ q = "untrack"
    \/ p = "chunk" /\ q = "check2" /\ k \in {"encrypt", "hide"}
    \/ p = "chunk" /\ q = "unzip" /\ k \in {"decrypt", "extract"}
    \/ p = "unzip" /\ q \in {"check2", "untrack"}
    \/ p = "check2" /\ q \in {"commit", "untrack"}
    \/ p = "commit" /\ q = "untrack"
    \/ p = "commit" /\ q = "wipe" /\ k \in {"encrypt", "hide"}
    \/ p = "wipe" /\ q \in {"wipe", "untrack"}
    \/ p = "untrack" /\ q = "clean"
    \/ p = "clean" /\ q = "report" /\ k \in {"hide", "extract"}
    \/ p = "clean" /\ q = "next" /\ k \notin {"hide", "extract"}
    \/ p = "write" /\ q \in {"replace", "report"}
    \/ p = "replace" /\ q = "report"
    \/ p = "report" /\ q = "unlink" /\ k = "rekey"

\* The worker goes on.
GoesOn(w) ==
    /\ UNCHANGED <<msg_queue, lost>>
    /\ Edge(worker[w].kind, worker[w].pc, worker'[w].pc)
    /\ worker[w].pc # "report"
    /\ worker'[w].kind = worker[w].kind /\ worker'[w].pw = worker[w].pw
    /\ worker'[w].wipe = worker[w].wipe
    /\ worker'[w].todo \subseteq worker[w].todo
    /\ worker[w].pc # "next" => /\ worker'[w].todo = worker[w].todo
                                /\ worker'[w].unit = worker[w].unit
    /\ worker'[w].pc = "pack" => worker'[w].unit # {}
    /\ worker[w].pc # "chunk" => worker'[w].good = worker[w].good
    /\ worker[w].pc # "name" => worker'[w].name = worker[w].name

\* The outcome is reported or lost; only a re-key has something left to do.
Ends(w) ==
    /\ \/ worker[w].pc = "report"
       \/ worker[w].pc = "clean" /\ worker[w].kind = "hide" /\ worker'[w] = Idle
    /\ \/ worker'[w] = Idle /\ worker[w].kind # "rekey"
       \/ /\ worker[w].kind = "rekey"
          /\ worker'[w] = [worker[w] EXCEPT !.pc = "unlink"]
    /\ \/ lost' = TRUE /\ msg_queue' = msg_queue
       \/ lost' = lost /\ \E t \in Texts : msg_queue' = Append(msg_queue, t)

Leaves(w) ==
    /\ worker[w].pc = "unlink" /\ worker'[w] = Idle
    /\ UNCHANGED <<msg_queue, lost>>

Moves(w) ==
    /\ Running /\ UNCHANGED ByUI
    /\ worker' \in [Workers -> WorkerRec]
    /\ \A v \in Workers : v # w => worker'[v] = worker[v]
    /\ GoesOn(w) \/ Ends(w) \/ Leaves(w)

LEMMA IdleType == Idle \in WorkerRec /\ NoTemp \in TempRec /\ ShapeOf(Idle)
BY DEF Idle, WorkerRec, AllKinds, Stages, NoTemp, TempRec, ShapeOf

LEMMA SetFacts ==
    ASSUME worker \in [Workers -> WorkerRec], NEW w \in Workers, NEW r \in WorkerRec,
           SetWorker(w, r)
    PROVE  /\ worker' \in [Workers -> WorkerRec] /\ worker'[w] = r
           /\ \A v \in Workers : v # w => worker'[v] = worker[v]
BY DEF SetWorker

\* The fields after a step to another stage, or a cancellation.
LEMMA GoToFacts ==
    ASSUME worker \in [Workers -> WorkerRec], NEW w \in Workers, NEW p \in Stages,
           GoTo(w, p) \/ (p = "untrack" /\ Cancelled(w))
    PROVE  /\ worker' \in [Workers -> WorkerRec]
           /\ \A v \in Workers : v # w => worker'[v] = worker[v]
           /\ worker'[w].pc = p /\ worker'[w].kind = worker[w].kind
           /\ worker'[w].pw = worker[w].pw /\ worker'[w].wipe = worker[w].wipe
           /\ worker'[w].todo = worker[w].todo /\ worker'[w].unit = worker[w].unit
           /\ worker'[w].good = worker[w].good /\ worker'[w].name = worker[w].name
<1>r. worker[w] \in WorkerRec
  OBVIOUS
<1>1. CASE GoTo(w, p)
  <2>1. [worker[w] EXCEPT !.pc = p] \in WorkerRec
    BY <1>r DEF WorkerRec
  <2>2. /\ worker' \in [Workers -> WorkerRec]
        /\ worker'[w] = [worker[w] EXCEPT !.pc = p]
        /\ \A v \in Workers : v # w => worker'[v] = worker[v]
    BY <1>1, <2>1, SetFacts DEF GoTo
  <2> QED
    BY <1>r, <2>2 DEF WorkerRec
<1>2. CASE p = "untrack" /\ Cancelled(w)
  <2>1. [worker[w] EXCEPT !.pc = "untrack", !.cancelled = TRUE] \in WorkerRec
    BY <1>r DEF WorkerRec, Stages
  <2>2. /\ worker' \in [Workers -> WorkerRec]
        /\ worker'[w] = [worker[w] EXCEPT !.pc = "untrack", !.cancelled = TRUE]
        /\ \A v \in Workers : v # w => worker'[v] = worker[v]
    BY <1>2, <2>1, SetFacts DEF Cancelled
  <2> QED
    BY <1>2, <1>r, <2>2 DEF WorkerRec
<1> QED
  BY <1>1, <1>2

\* A step to another stage that keeps the rest of the record.
LEMMA GoToMoves ==
    ASSUME TypeInv, NEW w \in Workers, NEW p \in Stages,
           GoTo(w, p) \/ (p = "untrack" /\ Cancelled(w)),
           Running, UNCHANGED ByUI, UNCHANGED <<msg_queue, lost>>,
           worker[w].pc \notin {"report", "next"}, p # "pack",
           Edge(worker[w].kind, worker[w].pc, p)
    PROVE  Moves(w)
<1>1. worker \in [Workers -> WorkerRec]
  BY DEF TypeInv, Shape
<1>2. /\ worker' \in [Workers -> WorkerRec]
      /\ \A v \in Workers : v # w => worker'[v] = worker[v]
      /\ worker'[w].pc = p /\ worker'[w].kind = worker[w].kind
      /\ worker'[w].pw = worker[w].pw /\ worker'[w].wipe = worker[w].wipe
      /\ worker'[w].todo = worker[w].todo /\ worker'[w].unit = worker[w].unit
      /\ worker'[w].good = worker[w].good /\ worker'[w].name = worker[w].name
  BY <1>1, GoToFacts
<1>3. GoesOn(w)
  BY <1>2 DEF GoesOn
<1> QED
  BY <1>2, <1>3 DEF Moves

LEMMA NextSourceMoves ==
    ASSUME TypeInv, NEW w \in Workers, NextSource(w)
    PROVE  Moves(w) /\ WorkTypes'
<1>0. /\ worker \in [Workers -> WorkerRec] /\ worker[w] \in WorkerRec /\ ShapeOf(worker[w])
      /\ worker[w].pc = "next" /\ Running /\ UNCHANGED ByUI
      /\ UNCHANGED <<msg_queue, plain, vaults, vault, lost, left>>
  BY DEF NextSource, Alive, TypeInv, Shape, Running
<1>k. worker[w].kind \in {"encrypt", "decrypt", "extract"}
  BY <1>0 DEF ShapeOf
<1>1. CASE /\ SetWorker(w, [worker[w] EXCEPT !.pc = "report", !.cancelled = @ \/ cancel])
           /\ UNCHANGED <<temp, tracked>>
  <2> DEFINE r == [worker[w] EXCEPT !.pc = "report", !.cancelled = @ \/ cancel]
  <2>1. /\ r \in WorkerRec /\ r.pc = "report" /\ r.kind = worker[w].kind /\ r.pw = worker[w].pw
        /\ r.wipe = worker[w].wipe /\ r.todo = worker[w].todo /\ r.good = worker[w].good
        /\ r.name = worker[w].name
    BY <1>0 DEF WorkerRec, Stages, TypeInv, WindowTypes
  <2>2. /\ worker' \in [Workers -> WorkerRec] /\ worker'[w] = r
        /\ \A v \in Workers : v # w => worker'[v] = worker[v]
    BY <1>0, <1>1, <2>1, SetFacts
  <2>3. GoesOn(w)
    BY <1>0, <1>k, <2>1, <2>2 DEF GoesOn, Edge
  <2> QED
    BY <1>0, <1>1, <2>2, <2>3 DEF Moves, TypeInv, WorkTypes, left
<1>2. ASSUME NEW s \in worker[w].todo, Encrypts(w),
             SetWorker(w, [worker[w] EXCEPT !.pc = "pack", !.unit = {s}, !.todo = @ \ {s}]),
             UNCHANGED <<temp, tracked>>
      PROVE  Moves(w) /\ WorkTypes'
  <2> DEFINE r == [worker[w] EXCEPT !.pc = "pack", !.unit = {s}, !.todo = @ \ {s}]
  <2>s. s \in Files
    BY <1>0, <1>2 DEF ShapeOf, Encrypts
  <2>1. /\ r \in WorkerRec /\ r.pc = "pack" /\ r.kind = worker[w].kind /\ r.pw = worker[w].pw
        /\ r.wipe = worker[w].wipe /\ r.todo = worker[w].todo \ {s} /\ r.good = worker[w].good
        /\ r.name = worker[w].name /\ r.unit = {s}
    BY <1>0, <2>s DEF WorkerRec, Stages
  <2>2. /\ worker' \in [Workers -> WorkerRec] /\ worker'[w] = r
        /\ \A v \in Workers : v # w => worker'[v] = worker[v]
    BY <1>0, <1>2, <2>1, SetFacts
  <2>3. GoesOn(w)
    BY <1>0, <1>2, <1>k, <2>1, <2>2 DEF GoesOn, Edge, Encrypts
  <2> QED
    BY <1>0, <1>2, <2>2, <2>3 DEF Moves, TypeInv, WorkTypes, left
<1>3. ASSUME NEW s \in worker[w].todo, ~Encrypts(w),
             SetWorker(w, [worker[w] EXCEPT !.pc = "open", !.todo = @ \ {s}]),
             temp' = [temp EXCEPT ![w].zip = "empty"], tracked' = tracked \cup {w}
      PROVE  Moves(w) /\ WorkTypes'
  <2> DEFINE r == [worker[w] EXCEPT !.pc = "open", !.todo = @ \ {s}]
  <2>1. /\ r \in WorkerRec /\ r.pc = "open" /\ r.kind = worker[w].kind /\ r.pw = worker[w].pw
        /\ r.wipe = worker[w].wipe /\ r.todo = worker[w].todo \ {s} /\ r.good = worker[w].good
        /\ r.name = worker[w].name
    BY <1>0 DEF WorkerRec, Stages
  <2>2. /\ worker' \in [Workers -> WorkerRec] /\ worker'[w] = r
        /\ \A v \in Workers : v # w => worker'[v] = worker[v]
    BY <1>0, <1>3, <2>1, SetFacts
  <2>3. GoesOn(w)
    BY <1>0, <1>3, <1>k, <2>1, <2>2 DEF GoesOn, Edge, Encrypts
  <2>4. temp' \in [Workers -> TempRec]
    BY <1>3 DEF TempRec, TypeInv, WorkTypes
  <2> QED
    BY <1>0, <1>3, <2>2, <2>3, <2>4 DEF Moves, TypeInv, WorkTypes, left
<1> QED
  BY <1>1, <1>2, <1>3 DEF NextSource

LEMMA PackMoves ==
    ASSUME TypeInv, NEW w \in Workers, Pack(w) \/ Packed(w) \/ PackedHidden(w)
    PROVE  Moves(w) /\ WorkTypes'
<1>0. /\ ShapeOf(worker[w]) /\ Running /\ UNCHANGED ByUI
      /\ worker[w].pc \in {"pack", "packing", "packing2"}
      /\ UNCHANGED <<msg_queue, plain, vaults, vault, lost>>
  BY DEF Pack, Packed, PackedHidden, Alive, TypeInv, Shape, Running
<1>1. PICK p \in Stages :
         /\ GoTo(w, p) \/ (p = "untrack" /\ Cancelled(w))
         /\ p # "pack" /\ Edge(worker[w].kind, worker[w].pc, p)
  BY <1>0 DEF Pack, Packed, PackedHidden, Alive, PackingStops, Fail, Stages, Edge,
              ShapeOf
<1>2. Moves(w)
  BY <1>0, <1>1, GoToMoves
<1>3. temp' \in [Workers -> TempRec]
  <2>1. temp \in [Workers -> TempRec]
    BY DEF TypeInv, WorkTypes, left
  <2>2. \/ UNCHANGED temp \/ temp' = [temp EXCEPT ![w].zip = "plain"]
        \/ temp' = [temp EXCEPT ![w].zip = "none"] \/ temp' = [temp EXCEPT ![w].second = "zip"]
        \/ temp' = [temp EXCEPT ![w].second = "none"]
    BY DEF Pack, Packed, PackedHidden
  <2> QED
    BY <2>1, <2>2 DEF TempRec
<1>4. tracked' \subseteq Workers
  BY DEF Pack, Packed, PackedHidden, TypeInv, WorkTypes
<1>5. /\ rests' \subseteq {"zip", "dir", "output"}
      /\ failed' \in BOOLEAN /\ halfway' \in BOOLEAN
  <2>1. UNCHANGED left \/ Stays({"zip"})
    BY DEF Pack, Packed, PackedHidden, PackingStops
  <2> QED
    BY <2>1 DEF Stays, left, TypeInv, WorkTypes
<1> QED
  BY <1>0, <1>2, <1>3, <1>4, <1>5 DEF TypeInv, WorkTypes, left

LEMMA ChooseNameMoves ==
    ASSUME TypeInv, NEW w \in Workers, ChooseName(w)
    PROVE  Moves(w) /\ WorkTypes'
<1>0. /\ worker \in [Workers -> WorkerRec] /\ worker[w] \in WorkerRec /\ ShapeOf(worker[w])
      /\ Running /\ UNCHANGED ByUI /\ worker[w].pc = "name"
      /\ UNCHANGED <<msg_queue, temp, tracked, plain, vaults, vault, lost, left>>
  BY DEF ChooseName, Alive, TypeInv, Shape, Running, files
<1>1. WorkTypes'
  BY <1>0 DEF TypeInv, WorkTypes, left
<1>2. CASE Fail(w)
  BY <1>0, <1>1, <1>2, GoToMoves DEF Fail, Stages, Edge
<1>3. CASE ~Fail(w)
  <2> DEFINE s == CHOOSE x \in worker[w].unit : TRUE
  <2>s. s \in Files \cup Hidden
    BY <1>0 DEF ShapeOf, WorkerRec
  <2>1. PICK i \in 1..Copies : SetWorker(w, [worker[w] EXCEPT !.pc = "check", !.name = <<s, i>>])
    BY <1>3 DEF ChooseName
  <2> DEFINE r == [worker[w] EXCEPT !.pc = "check", !.name = <<s, i>>]
  <2> HIDE DEF s
  <2>n. <<s, i>> \in Names
    BY <2>s DEF Names
  <2>2. /\ r \in WorkerRec /\ r.pc = "check" /\ r.kind = worker[w].kind /\ r.pw = worker[w].pw
        /\ r.wipe = worker[w].wipe /\ r.todo = worker[w].todo /\ r.good = worker[w].good
        /\ r.unit = worker[w].unit
    BY <1>0, <2>n DEF WorkerRec, Stages
  <2>3. /\ worker' \in [Workers -> WorkerRec] /\ worker'[w] = r
        /\ \A v \in Workers : v # w => worker'[v] = worker[v]
    BY <1>0, <2>1, <2>2, SetFacts
  <2>4. GoesOn(w)
    BY <1>0, <2>2, <2>3 DEF GoesOn, Edge
  <2> QED
    BY <1>0, <1>1, <2>3, <2>4 DEF Moves
<1> QED
  BY <1>2, <1>3

\* The steps that read, write and unpack.
LEMMA DataMoves ==
    ASSUME TypeInv, NEW w \in Workers,
           \/ OpenOutput(w) \/ FirstCheck(w) \/ WriteChunks(w) \/ Unzip(w) \/ LastCheck(w)
           \/ Unzipped(w)
    PROVE  Moves(w) /\ WorkTypes'
<1>0. /\ ShapeOf(worker[w]) /\ Running /\ UNCHANGED ByUI
      /\ worker[w].pc \in {"open", "check", "chunk", "unzip", "check2", "commit"}
      /\ UNCHANGED <<msg_queue, tracked, plain, vaults, vault, lost, left>>
  BY DEF OpenOutput, FirstCheck, WriteChunks, Unzip, LastCheck, Unzipped, Check, Alive,
         TypeInv, Shape, Running, files
<1>1. PICK p \in Stages :
         /\ GoTo(w, p) \/ (p = "untrack" /\ Cancelled(w))
         /\ p # "pack" /\ Edge(worker[w].kind, worker[w].pc, p)
  BY <1>0 DEF OpenOutput, FirstCheck, WriteChunks, Unzip, LastCheck, Unzipped, Check, Alive,
              Fail, Stages, Edge, ShapeOf
<1>2. Moves(w)
  BY <1>0, <1>1, GoToMoves
<1>3. temp' \in [Workers -> TempRec]
  <2>1. temp \in [Workers -> TempRec]
    BY DEF TypeInv, WorkTypes, left
  <2>2. \/ UNCHANGED temp \/ temp' = [temp EXCEPT ![w].zip = "empty"]
        \/ \E z \in {"dir", "output"} : temp' = [temp EXCEPT ![w].second = z]
        \/ \E z \in {"plain", temp[w].zip} : temp' = [temp EXCEPT ![w].zip = z]
        \/ \E z \in {"none", temp[w].second} : temp' = [temp EXCEPT ![w].second = z]
    BY <2>1 DEF OpenOutput, FirstCheck, WriteChunks, Unzip, LastCheck, Unzipped, Check, files
  <2> QED
    BY <2>1, <2>2 DEF TempRec
<1> QED
  BY <1>0, <1>2, <1>3 DEF TypeInv, WorkTypes, left

LEMMA ReadChunksMoves ==
    ASSUME TypeInv, NEW w \in Workers, ReadChunks(w)
    PROVE  Moves(w) /\ WorkTypes'
<1>0. /\ worker \in [Workers -> WorkerRec] /\ worker[w] \in WorkerRec /\ Encrypts(w)
      /\ Running /\ UNCHANGED ByUI /\ worker[w].pc = "chunk"
      /\ UNCHANGED <<msg_queue, temp, tracked, plain, vaults, vault, lost, left>>
  BY DEF ReadChunks, Alive, TypeInv, Shape, Running, files
<1>1. WorkTypes'
  BY <1>0 DEF TypeInv, WorkTypes, left
<1>2. CASE Fail(w)
  BY <1>0, <1>1, <1>2, GoToMoves DEF Fail, Stages, Edge
<1>3. CASE ~Fail(w)
  <2> DEFINE b == temp[w].zip = "plain"
             r == [worker[w] EXCEPT !.pc = "check2", !.good = b]
  <2>1. SetWorker(w, r)
    BY <1>3 DEF ReadChunks
  <2>b. b \in BOOLEAN
    OBVIOUS
  <2> HIDE DEF b
  <2>2. /\ r \in WorkerRec /\ r.pc = "check2" /\ r.kind = worker[w].kind /\ r.pw = worker[w].pw
        /\ r.wipe = worker[w].wipe /\ r.todo = worker[w].todo /\ r.name = worker[w].name
        /\ r.unit = worker[w].unit
    BY <1>0, <2>b DEF WorkerRec, Stages
  <2>3. /\ worker' \in [Workers -> WorkerRec] /\ worker'[w] = r
        /\ \A v \in Workers : v # w => worker'[v] = worker[v]
    BY <1>0, <2>1, <2>2, SetFacts
  <2>4. GoesOn(w)
    BY <1>0, <2>2, <2>3 DEF GoesOn, Edge, Encrypts
  <2> QED
    BY <1>0, <1>1, <2>3, <2>4 DEF Moves
<1> QED
  BY <1>2, <1>3

LEMMA CommitMoves ==
    ASSUME TypeInv, NEW w \in Workers, Commit(w)
    PROVE  Moves(w) /\ WorkTypes'
<1>0. /\ Running /\ UNCHANGED ByUI /\ worker[w].pc = "commit" /\ Encrypts(w)
      /\ UNCHANGED <<msg_queue, temp, tracked, plain, vault, lost, left>>
  BY DEF Commit, Alive, Running
<1>1. PICK p \in {"wipe", "untrack"} : GoTo(w, p)
  BY DEF Commit, Fail
<1>2. Moves(w)
  BY <1>0, <1>1, GoToMoves DEF Stages, Edge, Encrypts
<1> QED
  BY <1>0, <1>2 DEF TypeInv, WorkTypes, left

LEMMA WipeOriginalMoves ==
    ASSUME TypeInv, NEW w \in Workers, WipeOriginal(w)
    PROVE  Moves(w) /\ WorkTypes'
<1>0. /\ worker \in [Workers -> WorkerRec] /\ Running /\ UNCHANGED ByUI /\ worker[w].pc = "wipe"
      /\ UNCHANGED <<msg_queue, temp, tracked, vaults, vault, lost, left>>
      /\ plain' \subseteq plain
  BY DEF WipeOriginal, Alive, TypeInv, Shape, Running
<1>1. CASE Fail(w)
  <2>1. Moves(w)
    BY <1>0, <1>1, GoToMoves DEF Fail, Stages, Edge
  <2> QED
    BY <1>0, <2>1 DEF TypeInv, WorkTypes, left
<1>2. CASE UNCHANGED worker
  <2>1. GoesOn(w)
    BY <1>0, <1>2 DEF GoesOn, Edge
  <2> QED
    BY <1>0, <1>2, <2>1 DEF Moves, TypeInv, WorkTypes, left
<1> QED
  BY <1>1, <1>2 DEF WipeOriginal

LEMMA UntrackMoves ==
    ASSUME TypeInv, NEW w \in Workers, Untrack(w)
    PROVE  Moves(w) /\ WorkTypes'
<1>0. /\ Running /\ UNCHANGED ByUI /\ worker[w].pc = "untrack" /\ GoTo(w, "clean")
      /\ UNCHANGED <<msg_queue, temp, plain, vaults, vault, lost, left>>
      /\ tracked' \subseteq tracked
  BY DEF Untrack, Alive, Running
<1>1. Moves(w)
  BY <1>0, GoToMoves DEF Stages, Edge
<1> QED
  BY <1>0, <1>1 DEF TypeInv, WorkTypes, left

LEMMA CleanMoves ==
    ASSUME TypeInv, NEW w \in Workers, Clean(w)
    PROVE  Moves(w) /\ WorkTypes'
<1>0. /\ worker \in [Workers -> WorkerRec] /\ worker[w].kind \in AllKinds
      /\ Running /\ UNCHANGED ByUI /\ worker[w].pc = "clean"
      /\ UNCHANGED <<msg_queue, tracked, plain, vaults, vault>>
      /\ temp' = [temp EXCEPT ![w] = NoTemp]
  BY DEF Clean, Alive, TypeInv, Shape, Running, WorkTypes, WorkerRec
<1>t. temp' \in [Workers -> TempRec]
  BY <1>0, IdleType DEF TypeInv, WorkTypes
<1>l. /\ rests' \subseteq {"zip", "dir", "output"}
      /\ failed' \in BOOLEAN /\ halfway' \in BOOLEAN
  <2>1. temp[w] \in TempRec
    BY DEF TypeInv, WorkTypes
  <2>2. OnDisk(temp[w]) \subseteq {"zip", "dir", "output"}
    BY <2>1 DEF OnDisk, TempRec
  <2>3. UNCHANGED left \/ \E what \in SUBSET OnDisk(temp[w]) : Stays(what)
    BY DEF Clean
  <2> QED
    BY <2>2, <2>3 DEF Stays, left, TypeInv, WorkTypes
<1>1. CASE AfterClean(w) /\ UNCHANGED lost
  <2>1. Moves(w)
    BY <1>0, <1>1, GoToMoves DEF AfterClean, Stages, Edge
  <2> QED
    BY <1>0, <1>t, <1>l, <1>1, <2>1 DEF TypeInv, WorkTypes, left
<1>2. CASE worker[w].kind = "hide" /\ SetWorker(w, Idle) /\ lost' = TRUE
  <2>1. /\ worker' \in [Workers -> WorkerRec] /\ worker'[w] = Idle
        /\ \A v \in Workers : v # w => worker'[v] = worker[v]
    BY <1>0, <1>2, IdleType, SetFacts
  <2>2. Ends(w)
    BY <1>0, <1>2, <2>1 DEF Ends
  <2> QED
    BY <1>0, <1>t, <1>l, <1>2, <2>1, <2>2 DEF Moves, TypeInv, WorkTypes, left
<1> QED
  BY <1>1, <1>2 DEF Clean

LEMMA ReportMoves ==
    ASSUME TypeInv, NEW w \in Workers, Report(w)
    PROVE  Moves(w) /\ WorkTypes'
<1>0. /\ worker \in [Workers -> WorkerRec] /\ worker[w] \in WorkerRec
      /\ Running /\ UNCHANGED ByUI /\ worker[w].pc = "report"
      /\ UNCHANGED <<temp, tracked, plain, vaults, vault, left>>
  BY DEF Report, Alive, TypeInv, Shape, Running, files
<1>q. \/ \E t \in Texts : msg_queue' = Append(msg_queue, t) /\ UNCHANGED lost
      \/ lost' = TRUE /\ UNCHANGED msg_queue
  BY DEF Report, TextOf, Texts
<1>m. msg_queue' \in Seq(Texts) /\ lost' \in BOOLEAN
  <2>1. msg_queue \in Seq(Texts) /\ lost \in BOOLEAN
    BY DEF TypeInv, WorkTypes, left
  <2>2. msg_queue' \in Seq(Texts)
    BY <1>q, <2>1
  <2>3. lost' \in BOOLEAN
    BY <1>q, <2>1
  <2> QED
    BY <2>2, <2>3
<1>1. CASE worker[w].kind = "rekey"
  <2>1. GoTo(w, "unlink")
    BY <1>1 DEF Report
  <2>2. [worker[w] EXCEPT !.pc = "unlink"] \in WorkerRec
    BY <1>0 DEF WorkerRec, Stages
  <2>3. /\ worker' \in [Workers -> WorkerRec] /\ worker'[w] = [worker[w] EXCEPT !.pc = "unlink"]
        /\ \A v \in Workers : v # w => worker'[v] = worker[v]
    BY <1>0, <2>1, <2>2, SetFacts DEF GoTo
  <2>4. Ends(w)
    BY <1>0, <1>1, <1>q, <2>3 DEF Ends
  <2> QED
    BY <1>0, <1>m, <2>3, <2>4 DEF Moves, TypeInv, WorkTypes, left
<1>2. CASE worker[w].kind # "rekey"
  <2>1. SetWorker(w, Idle)
    BY <1>2 DEF Report
  <2>3. /\ worker' \in [Workers -> WorkerRec] /\ worker'[w] = Idle
        /\ \A v \in Workers : v # w => worker'[v] = worker[v]
    BY <1>0, <2>1, IdleType, SetFacts
  <2>4. Ends(w)
    BY <1>0, <1>2, <1>q, <2>3 DEF Ends
  <2> QED
    BY <1>0, <1>m, <2>3, <2>4 DEF Moves, TypeInv, WorkTypes, left
<1> QED
  BY <1>1, <1>2

LEMMA RekeyMoves ==
    ASSUME TypeInv, NEW w \in Workers,
           RekeyOpen(w) \/ RekeyWrite(w) \/ RekeyReplace(w) \/ RekeyUnlink(w)
    PROVE  Moves(w) /\ WorkTypes'
<1>0. /\ worker \in [Workers -> WorkerRec] /\ worker[w] \in WorkerRec
      /\ worker[w].kind = "rekey" /\ Running /\ UNCHANGED ByUI
      /\ worker[w].pc \in {"open", "write", "replace", "unlink"}
      /\ UNCHANGED <<msg_queue, temp, tracked, plain, vaults, lost, left>>
  BY DEF RekeyOpen, RekeyWrite, RekeyReplace, RekeyUnlink, Alive, TypeInv, Shape, ShapeOf,
         Running
<1>v. vault' \in VaultRec
  <2>1. vault \in VaultRec
    BY DEF TypeInv, WorkTypes, left
  <2>2. \/ UNCHANGED vault
        \/ \E x \in {"none", "whole", "partial", "torn"} : vault' = [vault EXCEPT !.tmp = x]
        \/ vault.tmp # "none" /\ vault' = [now |-> vault.tmp, tmp |-> "none"]
    BY <2>1 DEF RekeyOpen, RekeyWrite, RekeyReplace, RekeyUnlink, SetTmp, VaultRec
  <2> QED
    BY <2>1, <2>2 DEF VaultRec
<1>t. WorkTypes'
  BY <1>0, <1>v DEF TypeInv, WorkTypes, left
<1>1. CASE \E p \in Stages : /\ GoTo(w, p) /\ p # "pack" /\ Edge("rekey", worker[w].pc, p)
  BY <1>0, <1>1, <1>t, GoToMoves
<1>2. CASE RekeyUnlink(w)
  <2>1. /\ worker' \in [Workers -> WorkerRec] /\ worker'[w] = Idle
        /\ \A v \in Workers : v # w => worker'[v] = worker[v]
    BY <1>0, <1>2, IdleType, SetFacts DEF RekeyUnlink
  <2>2. Leaves(w)
    BY <1>0, <1>2, <2>1 DEF Leaves, RekeyUnlink, Alive
  <2> QED
    BY <1>0, <1>t, <2>1, <2>2 DEF Moves
<1>3. CASE /\ RekeyWrite(w)
           /\ SetWorker(w, [worker[w] EXCEPT !.pc = "report", !.cancelled = cancel])
  <2> DEFINE r == [worker[w] EXCEPT !.pc = "report", !.cancelled = cancel]
  <2>1. /\ r \in WorkerRec /\ r.pc = "report" /\ r.kind = worker[w].kind /\ r.pw = worker[w].pw
        /\ r.wipe = worker[w].wipe /\ r.todo = worker[w].todo /\ r.good = worker[w].good
        /\ r.name = worker[w].name /\ r.unit = worker[w].unit
    BY <1>0 DEF WorkerRec, Stages, TypeInv, WindowTypes
  <2>2. /\ worker' \in [Workers -> WorkerRec] /\ worker'[w] = r
        /\ \A v \in Workers : v # w => worker'[v] = worker[v]
    BY <1>0, <1>3, <2>1, SetFacts
  <2>3. GoesOn(w)
    BY <1>0, <1>3, <2>1, <2>2 DEF GoesOn, Edge, RekeyWrite, Alive
  <2> QED
    BY <1>0, <1>t, <2>2, <2>3 DEF Moves
<1>4. CASE RekeyOpen(w)
  <2>1. PICK p \in {"write", "report"} : GoTo(w, p)
    BY <1>4 DEF RekeyOpen, SetTmp
  <2> QED
    BY <2>1, <1>1, <1>4 DEF RekeyOpen, Alive, Edge, Stages
<1>5. CASE RekeyWrite(w)
  <2>1. CASE GoTo(w, "replace")
    BY <1>1, <1>5, <2>1 DEF RekeyWrite, Alive, Edge, Stages
  <2> QED
    BY <2>1, <1>3, <1>5 DEF RekeyWrite, SetTmp
<1>6. CASE RekeyReplace(w)
  BY <1>1, <1>6 DEF RekeyReplace, Alive, Edge, Stages
<1> QED
  BY <1>2, <1>4, <1>5, <1>6

LEMMA WorkerMoves ==
    ASSUME TypeInv, NEW w \in Workers, WorkerStep(w)
    PROVE  Moves(w) /\ WorkTypes'
BY NextSourceMoves, PackMoves, ChooseNameMoves, DataMoves, ReadChunksMoves, CommitMoves,
   WipeOriginalMoves, UntrackMoves, CleanMoves, ReportMoves, RekeyMoves DEF WorkerStep

LEMMA WorkerTypes ==
    ASSUME TypeInv, NEW w \in Workers, WorkerStep(w)
    PROVE  TypeInv'
<1>1. Moves(w) /\ WorkTypes'
  BY WorkerMoves
<1>2. WindowTypes'
  BY <1>1 DEF Moves, ByUI, appVars, TypeInv, WindowTypes
<1>3. ShapeOf(worker[w]) /\ worker[w].kind \in AllKinds
  BY DEF TypeInv, Shape, WorkerRec
<1>4. ShapeOf(worker'[w])
  <2>1. CASE GoesOn(w)
    <3>1. worker'[w].todo \subseteq worker[w].todo
      BY <2>1 DEF GoesOn
    <3> QED
      BY <1>3, <2>1, <3>1 DEF GoesOn, Edge, ShapeOf, AllKinds
  <2>2. CASE worker'[w] = Idle
    BY <2>2, IdleType
  <2>3. CASE /\ worker[w].kind = "rekey"
             /\ worker'[w] = [worker[w] EXCEPT !.pc = "unlink"]
    <3>1. worker[w] \in WorkerRec
      BY DEF TypeInv, Shape
    <3>2. /\ worker'[w].pc = "unlink" /\ worker'[w].kind = "rekey"
      BY <2>3, <3>1 DEF WorkerRec
    <3> QED
      BY <3>2 DEF ShapeOf
  <2> QED
    BY <1>1, <2>1, <2>2, <2>3 DEF Moves, Ends, Leaves
<1>5. Shape'
  BY <1>1, <1>4 DEF Moves, ByUI, appVars, Running, TypeInv, Shape
<1> QED
  BY <1>1, <1>2, <1>5 DEF TypeInv

-----------------------------------------------------------------------------
(* What the window does *)

\* A thread is started, from the dialog or without one.
Starts(w) ==
    /\ app = "open" /\ Free(w) /\ dialog' = "closed"
    /\ UNCHANGED <<form, timers, msg_queue, files, appVars, lost, left>>
    /\ cancel' \in BOOLEAN
    /\ mixed' = (mixed \/ Busy # {} \/ msg_queue # <<>>)
    /\ worker' \in [Workers -> WorkerRec] /\ ShapeOf(worker'[w])
    /\ \A v \in Workers : v # w => worker'[v] = worker[v]
    /\ \/ /\ dialog # "closed" /\ UNCHANGED is_processing
          /\ worker'[w].kind = dialog /\ worker'[w].pc = IF dialog = "hide" THEN "pack" ELSE "next"
          /\ worker'[w].todo = form.queue
          /\ worker'[w].pw = IF form.typed THEN "set" ELSE "empty"
       \/ /\ dialog = "closed" /\ is_processing' = TRUE
          /\ worker'[w].kind \in {"rekey", "decrypt", "extract", "other"}
          /\ worker'[w].pc \in {"open", "next", "report"}
          /\ worker'[w].pc = "open" => worker'[w].kind = "rekey"

LEMMA BeginFacts ==
    ASSUME TypeInv, NEW w \in Workers, NEW r \in WorkerRec, Begin(w, r)
    PROVE  /\ worker' \in [Workers -> WorkerRec] /\ worker'[w] = r
           /\ \A v \in Workers : v # w => worker'[v] = worker[v]
           /\ mixed' = (mixed \/ Busy # {} \/ msg_queue # <<>>)
           /\ Free(w) /\ UNCHANGED <<lost, left>>
BY DEF Begin, TypeInv, Shape

LEMMA ClickStarts ==
    ASSUME TypeInv, NEW w \in Workers, Click(w)
    PROVE  Starts(w)
<1>d. dialog \in {"closed", "encrypt", "hide"} /\ form \in FormRec /\ cancel \in BOOLEAN
  BY DEF TypeInv, WindowTypes
<1>1. ASSUME NEW wipe \in BOOLEAN, DialogConfirmed(w, wipe) PROVE Starts(w)
  <2> DEFINE p == IF dialog = "hide" THEN "pack" ELSE "next"
             u == IF dialog = "hide" THEN form.queue \cup Hidden ELSE {}
             pw == IF form.typed THEN "set" ELSE "empty"
             r == [Idle EXCEPT !.pc = p, !.kind = dialog, !.todo = form.queue, !.wipe = wipe,
                               !.unit = u, !.pw = pw]
  <2>1. /\ p \in Stages /\ u \subseteq Files \cup Hidden /\ pw \in {"set", "empty"}
        /\ dialog \in {"encrypt", "hide"} /\ form.queue \subseteq Files
    BY <1>1, <1>d DEF DialogConfirmed, Stages, FormRec
  <2>2. Begin(w, r)
    BY <1>1 DEF DialogConfirmed
  <2>s. p = "pack" => u # {} /\ dialog = "hide"
    BY DEF TypeInv, Shape
  <2>n. p \in {"pack", "next"} /\ (p = "next" => dialog # "hide")
    OBVIOUS
  <2>e. p = (IF dialog = "hide" THEN "pack" ELSE "next")
        /\ pw = (IF form.typed THEN "set" ELSE "empty")
    OBVIOUS
  <2> HIDE DEF p, u, pw
  <2>3. r \in WorkerRec /\ r.pc = p /\ r.kind = dialog /\ r.todo = form.queue /\ r.unit = u /\ r.pw = pw
    BY <2>1, IdleType DEF WorkerRec, AllKinds
  <2> HIDE DEF r
  <2>4. /\ worker' \in [Workers -> WorkerRec] /\ worker'[w] = r
        /\ \A v \in Workers : v # w => worker'[v] = worker[v]
        /\ mixed' = (mixed \/ Busy # {} \/ msg_queue # <<>>)
        /\ Free(w) /\ UNCHANGED <<lost, left>>
    BY <2>2, <2>3, BeginFacts
  <2>5. ShapeOf(r)
    BY <2>1, <2>3, <2>n, <2>s DEF ShapeOf
  <2> QED
    BY <1>1, <1>d, <2>e, <2>3, <2>4, <2>5 DEF Starts, DialogConfirmed
<1>2. ASSUME NEW r, r \in WorkerRec, Begin(w, r), app = "open", dialog = "closed",
             is_processing' = TRUE, cancel' \in BOOLEAN,
             UNCHANGED <<dialog, form, timers, msg_queue, files, appVars>>,
             \/ r.kind = "rekey" /\ r.pc = "open"
             \/ r.kind \in {"decrypt", "extract"} /\ r.pc = "next"
             \/ r.kind = "other" /\ r.pc = "report"
      PROVE  Starts(w)
  <2>1. /\ worker' \in [Workers -> WorkerRec] /\ worker'[w] = r
        /\ \A v \in Workers : v # w => worker'[v] = worker[v]
        /\ mixed' = (mixed \/ Busy # {} \/ msg_queue # <<>>)
        /\ Free(w) /\ UNCHANGED <<lost, left>>
    BY <1>2, BeginFacts
  <2>2. ShapeOf(r)
    BY <1>2 DEF ShapeOf
  <2> QED
    BY <1>2, <2>1, <2>2 DEF Starts
<1>3. CASE DoRekey(w)
  <2> DEFINE r == [Idle EXCEPT !.kind = "rekey", !.pc = "open"]
  <2>1. r \in WorkerRec /\ r.kind = "rekey" /\ r.pc = "open"
    BY IdleType DEF WorkerRec, AllKinds, Stages
  <2>2. Begin(w, r) /\ is_processing' = TRUE /\ cancel' = FALSE /\ app = "open"
        /\ dialog = "closed" /\ UNCHANGED <<dialog, form, timers, msg_queue, files, appVars>>
    BY <1>3 DEF DoRekey, Clickable
  <2> HIDE DEF r
  <2> QED
    BY <1>2, <2>1, <2>2
<1>4. CASE DoDecrypt(w)
  <2> DEFINE r == [Idle EXCEPT !.kind = "decrypt", !.pc = "next", !.todo = {"vault"}]
  <2>1. r \in WorkerRec /\ r.kind = "decrypt" /\ r.pc = "next"
    BY IdleType DEF WorkerRec, AllKinds, Stages
  <2>2. Begin(w, r) /\ is_processing' = TRUE /\ cancel' = FALSE /\ app = "open"
        /\ dialog = "closed" /\ UNCHANGED <<dialog, form, timers, msg_queue, files, appVars>>
    BY <1>4 DEF DoDecrypt, Clickable
  <2> HIDE DEF r
  <2> QED
    BY <1>2, <2>1, <2>2
<1>5. ASSUME NEW k \in AllKinds, DoUnguarded(w, k) PROVE Starts(w)
  <2> DEFINE p == IF k = "extract" THEN "next" ELSE "report"
             t == IF k = "extract" THEN {"vault"} ELSE {}
             r == [Idle EXCEPT !.kind = k, !.pc = p, !.todo = t]
  <2>k. k \in {"extract", "other"}
    BY <1>5 DEF DoUnguarded
  <2>0. /\ p \in Stages /\ t \subseteq {"vault"}
        /\ (p = "next" /\ k = "extract") \/ (p = "report" /\ k = "other")
    BY <2>k DEF Stages
  <2>2. Begin(w, r) /\ is_processing' = TRUE /\ cancel' = cancel /\ app = "open"
        /\ dialog = "closed" /\ UNCHANGED <<dialog, form, timers, msg_queue, files, appVars>>
    BY <1>5 DEF DoUnguarded, Clickable
  <2> HIDE DEF p, t
  <2>1. r \in WorkerRec /\ r.kind = k /\ r.pc = p
    BY <2>0, IdleType DEF WorkerRec
  <2> HIDE DEF r
  <2> QED
    BY <1>2, <1>d, <2>0, <2>1, <2>2
<1> QED
  BY <1>1, <1>3, <1>4, <1>5 DEF Click

LEMMA ClickTypes ==
    ASSUME TypeInv, NEW w \in Workers, Starts(w)
    PROVE  TypeInv'
<1>1. WindowTypes'
  BY DEF Starts, appVars, TypeInv, WindowTypes
<1>2. WorkTypes'
  BY DEF Starts, files, left, TypeInv, WorkTypes
<1>3. Shape'
  BY DEF Starts, appVars, TypeInv, Shape, Running
<1> QED
  BY <1>1, <1>2, <1>3 DEF TypeInv

\* Everything else that happens.
Window ==
    \/ \E f \in Files : AddSource(f)
    \/ TypePasswords \/ DialogCancelled \/ PollBatchDone \/ ClearBatch
    \/ \E k \in AllKinds : ClickEncrypt(k)
    \/ \E w \in Workers : WipeListed(w)
    \/ Close \/ Joined \/ UNCHANGED vars

Ending == Destroy \/ Kill

LEMMA WindowKeepsTypes ==
    ASSUME TypeInv, Window
    PROVE  TypeInv' /\ UNCHANGED <<worker, plain, vaults, vault, mixed, lost, left>>
<1>0. UNCHANGED <<worker, plain, vaults, vault, mixed, lost, left>>
  BY DEF Window, AddSource, TypePasswords, DialogCancelled, PollBatchDone, ClearBatch,
         ClickEncrypt, WipeListed, Close, Joined, files, marks, left, vars
<1>1. form' \in FormRec
  <2>1. form \in FormRec
    BY DEF TypeInv, WindowTypes
  <2>2. \/ UNCHANGED form \/ form' = [queue |-> {}, typed |-> FALSE]
        \/ form' = [form EXCEPT !.typed = TRUE]
        \/ \E f \in Files : form' = [form EXCEPT !.queue = @ \cup {f}]
    BY DEF Window, AddSource, TypePasswords, DialogCancelled, PollBatchDone, ClearBatch,
           ClickEncrypt, WipeListed, Close, Joined, uiVars, vars
  <2>3. [queue |-> {}, typed |-> FALSE] \in FormRec
    BY DEF FormRec
  <2>4. [form EXCEPT !.typed = TRUE] \in FormRec
    BY <2>1 DEF FormRec
  <2>5. \A f \in Files : [form EXCEPT !.queue = @ \cup {f}] \in FormRec
    BY <2>1 DEF FormRec
  <2> QED
    BY <2>1, <2>2, <2>3, <2>4, <2>5
<1>2. msg_queue' \in Seq(Texts) /\ (msg_queue = <<>> => msg_queue' = <<>>)
  <2>1. msg_queue \in Seq(Texts)
    BY DEF TypeInv, WorkTypes, left
  <2>2. UNCHANGED msg_queue \/ (msg_queue # <<>> /\ msg_queue' = Tail(msg_queue))
    BY DEF Window, AddSource, TypePasswords, DialogCancelled, PollBatchDone, ClearBatch,
           ClickEncrypt, WipeListed, Close, Joined, vars
  <2> QED
    BY <2>1, <2>2
<1>3. temp' \in [Workers -> TempRec]
  <2>1. temp \in [Workers -> TempRec]
    BY DEF TypeInv, WorkTypes, left
  <2>2. UNCHANGED temp \/ \E w \in Workers : temp' = [temp EXCEPT ![w].zip = "none"]
    BY DEF Window, AddSource, TypePasswords, DialogCancelled, PollBatchDone, ClearBatch,
           ClickEncrypt, WipeListed, Close, Joined, files, vars
  <2> QED
    BY <2>1, <2>2 DEF TempRec
<1>4. tracked' \subseteq Workers
  BY DEF Window, AddSource, TypePasswords, DialogCancelled, PollBatchDone, ClearBatch,
         ClickEncrypt, WipeListed, Close, Joined, files, marks, vars, TypeInv, WorkTypes
<1>5. doomed' \subseteq Workers /\ cleared' \subseteq Workers
  BY DEF Window, AddSource, TypePasswords, DialogCancelled, PollBatchDone, ClearBatch,
         ClickEncrypt, WipeListed, Close, Joined, appVars, vars, TypeInv, WindowTypes, WorkTypes
<1>6. is_processing' \in BOOLEAN /\ cancel' \in BOOLEAN
  BY DEF Window, AddSource, TypePasswords, DialogCancelled, PollBatchDone, ClearBatch,
         ClickEncrypt, WipeListed, Close, Joined, uiVars, vars, TypeInv, WindowTypes
<1>7. /\ dialog' \in {"closed", "encrypt", "hide"} /\ (dialog' = "hide" => Hidden # {})
      /\ app' \in {"open", "joining", "wiping", "closed", "killed"}
      /\ Running' <=> Running
      /\ ~Running => UNCHANGED dialog
  BY DEF Window, AddSource, TypePasswords, DialogCancelled, PollBatchDone, ClearBatch, Clickable,
         ClickEncrypt, WipeListed, Close, Joined, uiVars, appVars, vars, TypeInv, WindowTypes, Shape,
         Running
<1>8. WindowTypes' /\ WorkTypes'
  BY <1>0, <1>1, <1>2, <1>3, <1>4, <1>5, <1>6, <1>7 DEF TypeInv, WindowTypes, WorkTypes, left
<1>9. Shape'
  BY <1>0, <1>2, <1>7 DEF TypeInv, Shape
<1> QED
  BY <1>0, <1>8, <1>9 DEF TypeInv

LEMMA EndingKeepsTypes ==
    ASSUME TypeInv, Ending
    PROVE  /\ TypeInv' /\ ~Running' /\ worker' = [w \in Workers |-> Idle]
           /\ UNCHANGED <<files, ops, mixed, lost, rests, failed, cleared>>
           /\ halfway' <=> (halfway \/ \E w \in Workers : temp[w].second = "output")
<1>1. /\ app' \in {"closed", "killed"} /\ worker' = [w \in Workers |-> Idle]
      /\ msg_queue' = <<>> /\ dialog' = "closed"
      /\ UNCHANGED <<is_processing, cancel, form, files, doomed, cleared, ops, mixed, lost,
                     rests, failed>>
      /\ halfway' = (halfway \/ \E w \in Workers : temp[w].second = "output")
  BY DEF Ending, Destroy, Kill, Gone
<1>h. /\ halfway' \in BOOLEAN
      /\ halfway' <=> (halfway \/ \E w \in Workers : temp[w].second = "output")
  BY <1>1
<1>2. WindowTypes'
  BY <1>1 DEF TypeInv, WindowTypes
<1>3. WorkTypes'
  <2>1. msg_queue' \in Seq(Texts)
    BY <1>1
  <2> QED
    BY <1>1, <1>h, <2>1 DEF files, TypeInv, WorkTypes
<1>4. Shape'
  BY <1>1, IdleType DEF Shape
<1> QED
  BY <1>1, <1>h, <1>2, <1>3, <1>4 DEF TypeInv, Running

LEMMA RestartKeepsTypes ==
    ASSUME TypeInv, Restart
    PROVE  TypeInv' /\ worker' = [w \in Workers |-> Idle] /\ msg_queue' = <<>> /\ dialog' = "closed"
<1>1. /\ worker = [w \in Workers |-> Idle] /\ msg_queue = <<>> /\ dialog = "closed"
      /\ UNCHANGED <<worker, msg_queue, dialog, mixed, plain, vault, halfway>>
  BY DEF Restart, TypeInv, Shape, Running
<1>l. rests' \subseteq {"zip", "dir", "output"} /\ failed' \in BOOLEAN
  <2> DEFINE there == rests \cup UNION {OnDisk(temp[w]) : w \in Workers}
  <2>1. \A w \in Workers : OnDisk(temp[w]) \subseteq {"zip", "dir", "output"}
    BY DEF OnDisk, TempRec, TypeInv, WorkTypes
  <2>2. there \subseteq {"zip", "dir", "output"}
    BY <2>1 DEF TypeInv, WorkTypes
  <2>3. \E kept \in SUBSET (there \ {"output"}) :
           /\ rests' = kept \cup (there \cap {"output"})
           /\ failed' = (failed \/ kept # {})
    BY DEF Restart
  <2> HIDE DEF there
  <2> QED
    BY <2>2, <2>3
<1>2. WindowTypes'
  BY <1>1 DEF Restart, TypeInv, WindowTypes, FormRec
<1>3. WorkTypes'
  <2>1. /\ temp' = [w \in Workers |-> NoTemp] /\ tracked' = {} /\ lost' = FALSE
    BY DEF Restart
  <2> QED
    BY <1>1, <1>l, <2>1, IdleType DEF TypeInv, WorkTypes
<1>4. Shape'
  BY <1>1, IdleType DEF Shape
<1> QED
  BY <1>1, <1>2, <1>3, <1>4 DEF TypeInv

LEMMA Cases ==
    ASSUME [Next]_vars
    PROVE  \/ \E w \in Workers : Click(w) \/ WorkerStep(w)
           \/ Window \/ Ending \/ Restart
BY DEF Next, Window, Ending

LEMMA TypeStep ==
    ASSUME TypeInv, [Next]_vars
    PROVE  TypeInv'
BY Cases, ClickStarts, ClickTypes, WorkerTypes, WindowKeepsTypes, EndingKeepsTypes,
   RestartKeepsTypes

-----------------------------------------------------------------------------
(* Who is at work *)

LEMMA BusyMoves ==
    ASSUME TypeInv, NEW w \in Workers, Moves(w)
    PROVE  \/ GoesOn(w) /\ w \in Busy /\ Busy' = Busy
           \/ Ends(w) /\ w \in Busy /\ Busy' = Busy \ {w}
           \/ Leaves(w) /\ w \notin Busy /\ Busy' = Busy
<1>0. \A v \in Workers : v # w => worker'[v] = worker[v]
  BY DEF Moves
<1>i. Idle.pc = "none"
  BY DEF Idle
<1>1. CASE GoesOn(w)
  <2>1. worker[w].pc \notin {"none", "unlink"} /\ worker'[w].pc \notin {"none", "unlink"}
    BY <1>1 DEF GoesOn, Edge
  <2> QED
    BY <1>0, <1>1, <2>1 DEF Busy
<1>2. CASE Ends(w)
  <2>1. worker[w] \in WorkerRec
    BY DEF TypeInv, Shape
  <2>2. worker[w].pc \notin {"none", "unlink"} /\ worker'[w].pc \in {"none", "unlink"}
    BY <1>2, <1>i, <2>1 DEF Ends, WorkerRec
  <2> QED
    BY <1>0, <1>2, <2>2 DEF Busy
<1>3. CASE Leaves(w)
  BY <1>0, <1>3, <1>i DEF Leaves, Busy
<1> QED
  BY <1>1, <1>2, <1>3 DEF Moves

LEMMA BusyStarts ==
    ASSUME TypeInv, NEW w \in Workers, Starts(w)
    PROVE  Busy' = Busy \cup {w}
<1>1. worker'[w].pc \notin {"none", "unlink"}
  BY DEF Starts
<1> QED
  BY <1>1 DEF Starts, Busy

LEMMA NobodyBusy ==
    ASSUME worker = [w \in Workers |-> Idle]
    PROVE  Busy = {}
BY DEF Busy, Idle

\* The flag has an owner, whatever overlaps.
LEMMA OwnedStep ==
    ASSUME TypeInv, FlagOwned, [Next]_vars
    PROVE  FlagOwned'
<1>q. msg_queue \in Seq(Texts)
  BY DEF TypeInv, WorkTypes, left
<1>1. ASSUME NEW w \in Workers, WorkerStep(w) PROVE FlagOwned'
  <2>1. Moves(w)
    BY <1>1, WorkerMoves
  <2>2. UNCHANGED <<app, is_processing, dialog>>
    BY <2>1 DEF Moves, ByUI, appVars
  <2>3. CASE Ends(w)
    <3>1. lost' \/ msg_queue' # <<>>
      BY <1>q, <2>3 DEF Ends
    <3> QED
      BY <3>1 DEF FlagOwned
  <2>4. CASE Busy' = Busy /\ UNCHANGED <<msg_queue, lost>>
    BY <2>2, <2>4 DEF FlagOwned
  <2> QED
    BY <2>1, <2>3, <2>4, BusyMoves DEF GoesOn, Leaves
<1>2. ASSUME NEW w \in Workers, Click(w) PROVE FlagOwned'
  BY <1>2, ClickStarts, BusyStarts DEF FlagOwned
<1>3. CASE Window
  <2>1. Busy' = Busy /\ lost' = lost
    BY <1>3, WindowKeepsTypes DEF Busy
  <2>2. \/ is_processing' = FALSE
        \/ dialog' # "closed" /\ \E k \in AllKinds : ClickEncrypt(k)
        \/ app' # "open"
        \/ UNCHANGED <<app, is_processing, dialog, msg_queue>>
    BY <1>3 DEF Window, AddSource, TypePasswords, DialogCancelled, PollBatchDone, ClearBatch,
           ClickEncrypt, WipeListed, Close, Joined, uiVars, appVars, vars
  <2> QED
    BY <2>1, <2>2 DEF FlagOwned
<1>4. CASE Ending
  BY <1>4, EndingKeepsTypes DEF FlagOwned, Running
<1>5. CASE Restart
  BY <1>5 DEF Restart, FlagOwned
<1> QED
  BY <1>1, <1>2, <1>3, <1>4, <1>5, Cases

\* As long as no operation is started beside another, there is one worker, or
\* one message; the flag is up for it, and a closing window has told it.
Alone ==
    ~mixed =>
       /\ \A v, w \in Busy : v = w
       /\ msg_queue # <<>> => Busy = {} /\ Len(msg_queue) = 1 /\ dialog = "closed"
       /\ dialog # "closed" => Busy = {}
       /\ app = "open" /\ (Busy # {} \/ msg_queue # <<>> \/ dialog # "closed") => is_processing
       /\ app \in {"joining", "wiping"} /\ Busy # {} => cancel

LEMMA AloneStep ==
    ASSUME TypeInv, Alone, [Next]_vars
    PROVE  Alone'
<1>q. msg_queue \in Seq(Texts) /\ mixed \in BOOLEAN
  BY DEF TypeInv, WorkTypes, WindowTypes
<1>1. ASSUME NEW w \in Workers, WorkerStep(w) PROVE Alone'
  <2>1. Moves(w)
    BY <1>1, WorkerMoves
  <2>2. UNCHANGED <<app, is_processing, cancel, dialog, mixed>> /\ Running
    BY <2>1 DEF Moves, ByUI, appVars
  <2>3. CASE Ends(w) /\ w \in Busy /\ Busy' = Busy \ {w}
    <3> SUFFICES ASSUME ~mixed PROVE Alone'
      BY <2>2 DEF Alone
    <3>1. msg_queue = <<>> /\ Busy' = {} /\ dialog = "closed"
      BY <2>3 DEF Alone
    <3>2. msg_queue' = <<>> \/ Len(msg_queue') = 1
      BY <1>q, <2>3, <3>1 DEF Ends
    <3>3. app = "open" => is_processing
      BY <2>3 DEF Alone
    <3> QED
      BY <2>2, <3>1, <3>2, <3>3 DEF Alone
  <2>4. CASE Busy' = Busy /\ UNCHANGED <<msg_queue, lost>>
    BY <2>2, <2>4 DEF Alone
  <2> QED
    BY <2>1, <2>3, <2>4, BusyMoves DEF GoesOn, Leaves
<1>2. ASSUME NEW w \in Workers, Click(w) PROVE Alone'
  <2>1. Starts(w) /\ Busy' = Busy \cup {w}
    BY <1>2, ClickStarts, BusyStarts
  <2>2. app = "open" /\ app' = "open" /\ dialog' = "closed" /\ msg_queue' = msg_queue
        /\ mixed' = (mixed \/ Busy # {} \/ msg_queue # <<>>)
        /\ (is_processing' = TRUE \/ (dialog # "closed" /\ is_processing' = is_processing))
    BY <2>1 DEF Starts, appVars
  <2> QED
    BY <2>1, <2>2 DEF Alone
<1>3. CASE Window
  <2>1. Busy' = Busy /\ mixed' = mixed
    BY <1>3, WindowKeepsTypes DEF Busy
  <2>2. CASE DialogCancelled
    BY <2>1, <2>2 DEF DialogCancelled, appVars, Alone
  <2>3. CASE PollBatchDone
    <3> SUFFICES ASSUME ~mixed PROVE Alone'
      BY <2>1 DEF Alone
    <3>1. Busy = {} /\ dialog = "closed" /\ dialog' = "closed" /\ Len(msg_queue) = 1
          /\ msg_queue # <<>> /\ msg_queue' = Tail(msg_queue)
      BY <2>3 DEF PollBatchDone, Alone
    <3>2. msg_queue' = <<>>
      BY <1>q, <3>1
    <3> QED
      BY <2>1, <3>1, <3>2 DEF Alone
  <2>4. ASSUME NEW k \in AllKinds, ClickEncrypt(k) PROVE Alone'
    <3>1. ~is_processing /\ app = "open" /\ app' = app /\ msg_queue' = msg_queue
          /\ is_processing' = TRUE
      BY <2>4 DEF ClickEncrypt, Clickable, appVars
    <3> QED
      BY <2>1, <3>1 DEF Alone
  <2>5. CASE Close
    <3>1. /\ app = "open" /\ UNCHANGED <<is_processing, dialog, msg_queue>>
          /\ cancel' = (cancel \/ is_processing) /\ app' \in {"joining", "wiping"}
      BY <2>5 DEF Close, uiVars
    <3> QED
      BY <2>1, <3>1 DEF Alone
  <2>6. CASE \/ (\E f \in Files : AddSource(f)) \/ TypePasswords \/ ClearBatch
             \/ (\E w \in Workers : WipeListed(w)) \/ Joined \/ UNCHANGED vars
    <3>1. UNCHANGED <<is_processing, cancel, dialog, msg_queue>>
      BY <2>6 DEF AddSource, TypePasswords, ClearBatch, WipeListed, Joined, uiVars, vars
    <3>2. UNCHANGED app \/ (app = "joining" /\ app' = "wiping")
      BY <2>6 DEF AddSource, TypePasswords, ClearBatch, WipeListed, Joined, appVars, vars
    <3> QED
      BY <2>1, <3>1, <3>2 DEF Alone
  <2> QED
    BY <1>3, <2>2, <2>3, <2>4, <2>5, <2>6 DEF Window
<1>4. CASE Ending
  <2>1. ~Running' /\ worker' = [w \in Workers |-> Idle] /\ TypeInv'
    BY <1>4, EndingKeepsTypes
  <2>2. Busy' = {}
    BY <2>1, NobodyBusy DEF Busy, Idle
  <2> QED
    BY <2>1, <2>2 DEF TypeInv, Shape, Alone, Running
<1>5. CASE Restart
  <2>1. worker' = [w \in Workers |-> Idle] /\ msg_queue' = <<>> /\ dialog' = "closed"
    BY <1>5, RestartKeepsTypes
  <2>2. Busy' = {}
    BY <2>1, NobodyBusy DEF Busy, Idle
  <2> QED
    BY <2>1, <2>2 DEF Alone
<1> QED
  BY <1>1, <1>2, <1>3, <1>4, <1>5, Cases

-----------------------------------------------------------------------------
(* What a worker's step does to the files *)

LEMMA ActionAt ==
    ASSUME NEW w \in Workers, WorkerStep(w)
    PROVE  /\ worker[w].pc = "next" => NextSource(w)
           /\ worker[w].pc = "pack" => Pack(w)
           /\ worker[w].pc = "packing" => Packed(w)
           /\ worker[w].pc = "packing2" => PackedHidden(w)
           /\ worker[w].pc = "name" => ChooseName(w)
           /\ worker[w].pc = "open" => OpenOutput(w) \/ RekeyOpen(w)
           /\ worker[w].pc = "check" => FirstCheck(w)
           /\ worker[w].pc = "chunk" => ReadChunks(w) \/ WriteChunks(w)
           /\ worker[w].pc = "unzip" => Unzip(w)
           /\ worker[w].pc = "check2" => LastCheck(w)
           /\ worker[w].pc = "commit" => Unzipped(w) \/ Commit(w)
           /\ worker[w].pc = "wipe" => WipeOriginal(w)
           /\ worker[w].pc = "untrack" => Untrack(w)
           /\ worker[w].pc = "clean" => Clean(w)
           /\ worker[w].pc = "report" => Report(w)
           /\ worker[w].pc = "write" => RekeyWrite(w)
           /\ worker[w].pc = "replace" => RekeyReplace(w)
           /\ worker[w].pc = "unlink" => RekeyUnlink(w)
BY DEF WorkerStep, NextSource, Pack, Packed, PackedHidden, ChooseName, OpenOutput, FirstCheck,
       ReadChunks, WriteChunks, Unzip, LastCheck, Check, Unzipped, Commit, WipeOriginal, Untrack,
       Clean, Report, RekeyOpen, RekeyWrite, RekeyReplace, RekeyUnlink, Alive

LEMMA Untouched ==
    ASSUME TypeInv, NEW w \in Workers, WorkerStep(w)
    PROVE  /\ worker[w].pc # "commit" => vaults' = vaults
           /\ worker[w].pc # "wipe" => plain' = plain
           /\ worker[w].pc \notin {"open", "write", "replace", "unlink"} => vault' = vault
           /\ worker[w].pc \notin {"next", "packing", "untrack"} => tracked' = tracked
           /\ worker[w].pc \notin {"packing", "packing2", "clean"} => UNCHANGED left
           /\ UNCHANGED left \/ failed'
BY DEF WorkerStep, NextSource, Pack, Packed, PackedHidden, ChooseName, OpenOutput, FirstCheck,
       ReadChunks, WriteChunks, Unzip, LastCheck, Check, Unzipped, Commit, WipeOriginal, Untrack,
       Clean, Report, RekeyOpen, RekeyWrite, RekeyReplace, RekeyUnlink, Alive, files, PackingStops,
       Stays

LEMMA TempUntouched ==
    ASSUME TypeInv, NEW w \in Workers, WorkerStep(w)
    PROVE  /\ \A v \in Workers : v # w => temp'[v] = temp[v]
           /\ worker[w].pc \notin {"next", "pack", "packing", "packing2", "open", "chunk",
                                   "unzip", "commit", "clean"} => temp' = temp
           /\ worker[w].kind = "rekey" => temp' = temp
<1>t. temp \in [Workers -> TempRec]
  BY DEF TypeInv, WorkTypes, left
<1>1. UNCHANGED temp \/ \E x : temp' = [temp EXCEPT ![w] = x]
  <2>1. \/ UNCHANGED temp \/ \E z : temp' = [temp EXCEPT ![w].zip = z]
        \/ \E z : temp' = [temp EXCEPT ![w].second = z]
        \/ temp' = [temp EXCEPT ![w] = NoTemp]
    BY DEF WorkerStep, NextSource, Pack, Packed, PackedHidden, ChooseName, OpenOutput, FirstCheck,
       ReadChunks, WriteChunks, Unzip, LastCheck, Check, Unzipped, Commit, WipeOriginal, Untrack,
       Clean, Report, RekeyOpen, RekeyWrite, RekeyReplace, RekeyUnlink, Alive, files
  <2> QED
    BY <2>1
<1>2. \A v \in Workers : v # w => temp'[v] = temp[v]
  BY <1>t, <1>1
<1>3. worker[w].pc \notin {"next", "pack", "packing", "packing2", "open", "chunk",
                           "unzip", "commit", "clean"} => temp' = temp
  BY DEF WorkerStep, NextSource, Pack, Packed, PackedHidden, ChooseName, OpenOutput, FirstCheck,
       ReadChunks, WriteChunks, Unzip, LastCheck, Check, Unzipped, Commit, WipeOriginal, Untrack,
       Clean, Report, RekeyOpen, RekeyWrite, RekeyReplace, RekeyUnlink, Alive, files
<1>4. worker[w].kind = "rekey" => temp' = temp
  <2>1. worker[w].kind = "rekey" => worker[w].pc \in {"open", "write", "replace", "report", "unlink"}
    BY DEF TypeInv, Shape, ShapeOf
  <2>2. worker[w].kind = "rekey" /\ worker[w].pc = "open" => RekeyOpen(w)
    BY ActionAt DEF OpenOutput
  <2> QED
    BY <1>3, <2>1, <2>2 DEF RekeyOpen
<1> QED
  BY <1>2, <1>3, <1>4

-----------------------------------------------------------------------------
(* Passwords *)

\* Whoever waits behind the dialog with no password has no sources either, and
\* a hidden vault without sources is not packed.
Passwords ==
    /\ dialog # "closed" /\ ~form.typed => form.queue = {}
    /\ \A w \in Workers : worker[w].kind = "hide" =>
          /\ worker[w].pw = "empty" => worker[w].todo = {}
          /\ worker[w].pc \notin {"pack", "untrack", "clean", "report"} => worker[w].todo # {}

LEMMA PasswordsStep ==
    ASSUME TypeInv, Passwords, NoEmptyPassword, [Next]_vars
    PROVE  Passwords' /\ NoEmptyPassword'
<1>i. Idle.kind = "other"
  BY DEF Idle
<1>1. ASSUME NEW w \in Workers, WorkerStep(w) PROVE Passwords' /\ NoEmptyPassword'
  <2>0. Moves(w)
    BY <1>1, WorkerMoves
  <2>1. UNCHANGED <<dialog, form>>
    BY <2>0 DEF Moves, ByUI
  <2>s. ShapeOf(worker[w])
    BY DEF TypeInv, Shape
  <2>2. ASSUME worker'[w].kind = "hide"
        PROVE  /\ worker'[w].pw = "empty" => worker'[w].todo = {}
               /\ worker'[w].pc \notin {"pack", "untrack", "clean", "report"} => worker'[w].todo # {}
    <3>1. GoesOn(w)
      <4>1. worker[w].kind = "rekey" => worker'[w].kind # "hide"
        <5>1. worker[w] \in WorkerRec
          BY DEF TypeInv, Shape
        <5>2. [worker[w] EXCEPT !.pc = "unlink"].kind = worker[w].kind
          BY <5>1 DEF WorkerRec
        <5> QED
          BY <2>0, <1>i, <5>2 DEF Moves, Ends, Leaves, GoesOn
      <4> QED
        BY <2>0, <2>2, <1>i, <4>1 DEF Moves, Ends, Leaves
    <3>2. worker[w].kind = "hide" /\ worker'[w].pw = worker[w].pw /\ worker[w].pc # "next"
      BY <2>2, <2>s, <3>1 DEF GoesOn, ShapeOf
    <3>3. worker'[w].todo = worker[w].todo
      BY <3>1, <3>2 DEF GoesOn
    <3>4. worker[w].pc = "pack" /\ worker'[w].pc # "untrack" => worker[w].todo # {}
      <4>1. worker[w].pc = "pack" => Pack(w)
        BY <1>1, ActionAt
      <4>2. Fail(w) => worker'[w].pc = "untrack"
        BY GoToFacts DEF Fail, Stages, TypeInv, Shape
      <4> QED
        BY <3>2, <4>1, <4>2 DEF Pack
    <3>5. worker[w].pc \in {"untrack", "clean", "report"} => worker'[w].pc \in {"clean", "report"}
      BY <3>1, <3>2 DEF GoesOn, Edge
    <3> QED
      BY <3>2, <3>3, <3>4, <3>5 DEF Passwords
  <2>3. Passwords'
    BY <2>0, <2>1, <2>2 DEF Moves, Passwords
  <2>4. NoEmptyPassword'
    <3>1. CASE Commit(w)
      <4>1. worker[w].pc = "commit" /\ worker[w] \in WorkerRec
        BY <3>1 DEF Commit, Alive, TypeInv, Shape
      <4>2. worker[w].kind = "hide" => worker[w].pw = "set"
        BY <4>1 DEF Passwords, WorkerRec
      <4> QED
        BY <3>1, <4>2 DEF Commit, NoEmptyPassword
    <3>2. CASE UNCHANGED vaults
      BY <3>2 DEF NoEmptyPassword
    <3> QED
      BY <1>1, <3>1, <3>2, ActionAt, Untouched DEF Unzipped
  <2> QED
    BY <2>3, <2>4
<1>2. ASSUME NEW w \in Workers, Click(w) PROVE Passwords' /\ NoEmptyPassword'
  <2>1. Starts(w)
    BY <1>2, ClickStarts
  <2> QED
    BY <2>1 DEF Starts, files, Passwords, NoEmptyPassword
<1>3. CASE Window
  <2>1. UNCHANGED <<worker, vaults>>
    BY <1>3, WindowKeepsTypes
  <2>2. dialog' # "closed" /\ ~form'.typed => form'.queue = {}
    <3>1. form \in FormRec
      BY DEF TypeInv, WindowTypes
    <3>2. CASE \/ (\E f \in Files : AddSource(f)) \/ TypePasswords
      BY <3>2 DEF AddSource, TypePasswords, Clickable
    <3>3. CASE DialogCancelled
      BY <3>3 DEF DialogCancelled
    <3>4. CASE ClearBatch
      BY <3>4 DEF ClearBatch
    <3>5. CASE \E k \in AllKinds : ClickEncrypt(k)
      BY <3>5 DEF ClickEncrypt
    <3>6. CASE UNCHANGED <<dialog, form>>
      BY <3>6 DEF Passwords
    <3> QED
      BY <1>3, <3>2, <3>3, <3>4, <3>5, <3>6
      DEF Window, PollBatchDone, WipeListed, Close, Joined, uiVars, vars
  <2> QED
    BY <2>1, <2>2 DEF Passwords, NoEmptyPassword
<1>4. CASE Ending \/ Restart
  <2>1. worker' = [w \in Workers |-> Idle] /\ dialog' = "closed"
    BY <1>4, EndingKeepsTypes, RestartKeepsTypes DEF Ending, Destroy, Kill, Gone
  <2>2. UNCHANGED vaults
    BY <1>4, EndingKeepsTypes DEF Restart, files
  <2> QED
    BY <1>i, <2>1, <2>2 DEF Passwords, NoEmptyPassword
<1> QED
  BY <1>1, <1>2, <1>3, <1>4, Cases

-----------------------------------------------------------------------------
(* The vault that is re-keyed *)

\* The temporary file may be missing when it is to replace the vault, but it is
\* whole if it is there.
RekeyTmp ==
    ~mixed =>
       /\ vault.tmp # "torn"
       /\ \A w \in Workers : worker[w].pc = "replace" => vault.tmp \in {"none", "whole"}

LEMMA RekeyStep ==
    ASSUME TypeInv, Alone, RekeyTmp, VaultWhole, [Next]_vars
    PROVE  RekeyTmp' /\ VaultWhole'
<1>v. vault \in VaultRec
  BY DEF TypeInv, WorkTypes, left
<1>i. Idle.pc = "none"
  BY DEF Idle
<1>1. ASSUME NEW w \in Workers, WorkerStep(w) PROVE RekeyTmp' /\ VaultWhole'
  <2>0. Moves(w)
    BY <1>1, WorkerMoves
  <2>m. mixed' = mixed
    BY <2>0 DEF Moves, ByUI
  <2> SUFFICES ASSUME ~mixed PROVE RekeyTmp' /\ VaultWhole'
    BY <2>m DEF RekeyTmp, VaultWhole
  <2>1. \A v \in Workers : v # w => worker'[v] = worker[v]
    BY <2>0 DEF Moves
  <2>2. \A v \in Workers : v # w /\ w \in Busy => worker[v].pc \notin {"write", "replace"}
    BY DEF Alone, Busy
  <2>e. worker'[w].pc = "replace" => worker[w].pc = "write"
    <3>1. worker[w] \in WorkerRec
      BY DEF TypeInv, Shape
    <3>2. [worker[w] EXCEPT !.pc = "unlink"].pc = "unlink"
      BY <3>1 DEF WorkerRec
    <3> QED
      BY <2>0, <1>i, <3>2 DEF Moves, GoesOn, Ends, Leaves, Edge
  <2>3. CASE RekeyOpen(w)
    <3>1. w \in Busy /\ worker[w].pc = "open"
      BY <2>3 DEF RekeyOpen, Alive, Busy
    <3>2. UNCHANGED vault \/ vault' = [vault EXCEPT !.tmp = "partial"]
      BY <2>2, <2>3, <3>1 DEF RekeyOpen, SetTmp
    <3> QED
      BY <1>v, <2>1, <2>2, <2>e, <3>1, <3>2 DEF RekeyTmp, VaultWhole, VaultRec
  <2>4. CASE RekeyWrite(w)
    <3>1. w \in Busy /\ worker[w].pc = "write"
      BY <2>4 DEF RekeyWrite, Alive, Busy
    <3>2. CASE UNCHANGED vault /\ worker'[w].pc # "replace"
      BY <2>1, <3>2 DEF RekeyTmp, VaultWhole
    <3>3. CASE SetTmp(w, "replace", IF vault.tmp = "partial" THEN "whole" ELSE vault.tmp)
      <4>1. vault'.now = vault.now /\ vault'.tmp \in {"none", "whole"}
        BY <1>v, <3>3 DEF SetTmp, VaultRec, RekeyTmp
      <4> QED
        BY <4>1 DEF RekeyTmp, VaultWhole
    <3>4. CASE SetWorker(w, [worker[w] EXCEPT !.pc = "report", !.cancelled = cancel]) /\ UNCHANGED vault
      <4>1. worker'[w].pc = "report"
        BY <3>4 DEF SetWorker, TypeInv, Shape, WorkerRec
      <4> QED
        BY <4>1, <3>2, <3>4
    <3> QED
      BY <2>4, <3>3, <3>4 DEF RekeyWrite
  <2>5. CASE RekeyReplace(w)
    <3>1. worker[w].pc = "replace" /\ w \in Busy
      BY <2>5 DEF RekeyReplace, Alive, Busy
    <3>2. UNCHANGED vault \/ (vault'.now = "whole" /\ vault'.tmp = "none")
      BY <2>5, <3>1 DEF RekeyReplace, RekeyTmp
    <3> QED
      BY <2>1, <2>2, <2>e, <3>1, <3>2 DEF RekeyTmp, VaultWhole
  <2>6. CASE RekeyUnlink(w)
    <3>1. vault'.now = vault.now /\ vault'.tmp \in {"none", vault.tmp}
      BY <1>v, <2>6 DEF RekeyUnlink, VaultRec
    <3>2. worker[w].pc = "unlink"
      BY <2>6 DEF RekeyUnlink, Alive
    <3> QED
      BY <2>1, <2>e, <3>1, <3>2 DEF RekeyTmp, VaultWhole
  <2>7. CASE UNCHANGED vault /\ worker[w].pc # "write"
    BY <2>1, <2>e, <2>7 DEF RekeyTmp, VaultWhole
  <2> QED
    BY <1>1, <2>3, <2>4, <2>5, <2>6, <2>7, ActionAt, Untouched DEF OpenOutput
<1>2. ASSUME NEW w \in Workers, Click(w) PROVE RekeyTmp' /\ VaultWhole'
  <2>1. Starts(w)
    BY <1>2, ClickStarts
  <2>2. worker'[w].pc # "replace" /\ UNCHANGED vault /\ (mixed => mixed')
        /\ \A v \in Workers : v # w => worker'[v] = worker[v]
    BY <2>1 DEF Starts, files
  <2> QED
    BY <2>2 DEF RekeyTmp, VaultWhole
<1>3. CASE Window
  BY <1>3, WindowKeepsTypes DEF RekeyTmp, VaultWhole
<1>4. CASE Ending \/ Restart
  <2>1. worker' = [w \in Workers |-> Idle] /\ UNCHANGED <<vault, mixed>>
    BY <1>4, EndingKeepsTypes, RestartKeepsTypes DEF Restart, files, marks
  <2> QED
    BY <1>i, <2>1 DEF RekeyTmp, VaultWhole
<1> QED
  BY <1>1, <1>2, <1>3, <1>4, Cases

-----------------------------------------------------------------------------
(* The originals *)

\* What stands between an original and its loss, at each stage: the zip is
\* plaintext still, or the worker has been told to stop; what was read is good;
\* the name is free; the vault is there.
CarriedBy(w) ==
    /\ worker[w].pc \in {"packing", "packing2", "name", "check", "chunk"} =>
          temp[w].zip = "plain" \/ cancel
    /\ worker[w].pc = "check2" => worker[w].good \/ cancel
    /\ worker[w].pc = "commit" => worker[w].good
    /\ worker[w].pc \in {"check", "chunk", "check2", "commit"} =>
          worker[w].name \notin DOMAIN vaults
    /\ worker[w].pc = "wipe" => \E n \in DOMAIN vaults : worker[w].unit \subseteq vaults[n].files

Carried == ~mixed => \A w \in Workers : Encrypts(w) => CarriedBy(w)

LEMMA OwnStepCarries ==
    ASSUME TypeInv, Carried, ~mixed, NEW w \in Workers, WorkerStep(w), Moves(w), Encrypts(w)',
           GoesOn(w)
    PROVE  CarriedBy(w)'
<1>0. /\ worker[w].kind \in {"encrypt", "hide"} /\ Encrypts(w) /\ CarriedBy(w)
      /\ cancel' = cancel /\ worker \in [Workers -> WorkerRec] /\ ShapeOf(worker[w])
      /\ temp \in [Workers -> TempRec] /\ temp[w] \in TempRec
  BY DEF GoesOn, Encrypts, Carried, Moves, ByUI, TypeInv, Shape, WorkTypes
<1>1. CASE worker'[w].pc = "packing"
  <2>1. Pack(w) /\ ~Fail(w)
    <3>1. worker[w].pc = "pack"
      BY <1>1 DEF GoesOn, Edge
    <3>2. Fail(w) => worker'[w].pc = "untrack"
      BY <1>0, GoToFacts DEF Fail, Stages
    <3> QED
      BY <1>1, <3>1, <3>2, ActionAt
  <2>2. temp' = [temp EXCEPT ![w].zip = "plain"]
    BY <2>1 DEF Pack
  <2>3. temp'[w].zip = "plain"
    BY <1>0, <2>2 DEF TempRec
  <2> QED
    BY <1>1, <2>3 DEF CarriedBy
<1>2. CASE worker'[w].pc \in {"packing2", "name"}
  <2>1. worker[w].pc \in {"packing", "packing2"}
    BY <1>2 DEF GoesOn, Edge
  <2>2. Packed(w) \/ PackedHidden(w)
    BY <2>1, ActionAt
  <2>3. Fail(w) \/ Cancelled(w) => worker'[w].pc = "untrack"
    BY <1>0, GoToFacts DEF Fail, Stages
  <2>4. temp'[w].zip = temp[w].zip
    <3>1. UNCHANGED temp \/ temp' = [temp EXCEPT ![w].second = "zip"]
      BY <1>2, <2>2, <2>3 DEF Packed, PackedHidden, PackingStops
    <3> QED
      BY <1>0, <3>1 DEF TempRec
  <2> QED
    BY <1>0, <1>2, <2>1, <2>4 DEF CarriedBy
<1>3. CASE worker'[w].pc = "check"
  <2>1. worker[w].pc = "name" /\ ChooseName(w) /\ temp' = temp /\ vaults' = vaults
    <3>1. worker[w].pc = "name"
      BY <1>0, <1>3 DEF GoesOn, Edge
    <3> QED
      BY <3>1, ActionAt, Untouched, TempUntouched
  <2>2. Fail(w) => worker'[w].pc = "untrack"
    BY <1>0, GoToFacts DEF Fail, Stages
  <2>3. worker'[w].name \notin DOMAIN vaults
    <3> DEFINE s == CHOOSE x \in worker[w].unit : TRUE
    <3>1. PICK i \in 1..Copies :
             /\ <<s, i>> \notin DOMAIN vaults
             /\ SetWorker(w, [worker[w] EXCEPT !.pc = "check", !.name = <<s, i>>])
      BY <1>3, <2>1, <2>2 DEF ChooseName
    <3> HIDE DEF s
    <3>2. worker'[w].name = <<s, i>>
      BY <1>0, <3>1 DEF SetWorker, WorkerRec
    <3> QED
      BY <3>1, <3>2
  <2> QED
    BY <1>0, <1>3, <2>1, <2>3 DEF CarriedBy
<1>4. CASE worker'[w].pc = "chunk"
  <2>1. worker[w].pc = "check"
    BY <1>4 DEF GoesOn, Edge
  <2>2. temp' = temp /\ vaults' = vaults /\ worker'[w].name = worker[w].name
    BY <2>1, Untouched, TempUntouched DEF GoesOn
  <2> QED
    BY <1>0, <1>4, <2>1, <2>2 DEF CarriedBy
<1>5. CASE worker'[w].pc = "check2"
  <2>1. worker[w].pc = "chunk" /\ ReadChunks(w)
    <3>1. worker[w].pc = "chunk"
      BY <1>0, <1>5 DEF GoesOn, Edge, ShapeOf
    <3>2. ~WriteChunks(w)
      BY <1>0 DEF WriteChunks
    <3> QED
      BY <3>1, <3>2, ActionAt
  <2>2. vaults' = vaults /\ worker'[w].name = worker[w].name
    BY <2>1, Untouched DEF GoesOn
  <2>3. Fail(w) => worker'[w].pc = "untrack"
    BY <1>0, GoToFacts DEF Fail, Stages
  <2>4. temp[w].zip = "plain" => worker'[w].good
    <3>1. SetWorker(w, [worker[w] EXCEPT !.pc = "check2", !.good = (temp[w].zip = "plain")])
      BY <1>5, <2>1, <2>3 DEF ReadChunks
    <3> DEFINE b == (temp[w].zip = "plain")
    <3>2. SetWorker(w, [worker[w] EXCEPT !.pc = "check2", !.good = b]) /\ (temp[w].zip = "plain" => b)
      BY <3>1
    <3> HIDE DEF b
    <3>3. worker'[w].good = b
      BY <1>0, <3>2 DEF SetWorker, WorkerRec
    <3> QED
      BY <3>2, <3>3
  <2> QED
    BY <1>0, <1>5, <2>1, <2>2, <2>4 DEF CarriedBy
<1>6. CASE worker'[w].pc = "commit"
  <2>1. worker[w].pc = "check2" /\ LastCheck(w)
    <3>1. worker[w].pc = "check2"
      BY <1>6 DEF GoesOn, Edge
    <3> QED
      BY <3>1, ActionAt
  <2>2. vaults' = vaults /\ worker'[w].name = worker[w].name /\ worker'[w].good = worker[w].good
    BY <2>1, Untouched DEF GoesOn
  <2>3. ~cancel
    <3>1. Cancelled(w) => worker'[w].pc = "untrack"
      BY <1>0, GoToFacts DEF Stages
    <3> QED
      BY <1>6, <2>1, <3>1 DEF LastCheck, Check
  <2> QED
    BY <1>0, <1>6, <2>1, <2>2, <2>3 DEF CarriedBy
<1>7. CASE worker'[w].pc = "wipe"
  <2>1. worker[w].pc \in {"commit", "wipe"} /\ worker'[w].unit = worker[w].unit
    BY <1>7 DEF GoesOn, Edge
  <2>2. CASE worker[w].pc = "commit"
    <3>1. Commit(w)
      BY <1>0, <2>2, ActionAt DEF Unzipped
    <3>2. ~Fail(w)
      BY <1>0, <1>7, GoToFacts DEF Fail, Stages
    <3>3. worker[w].good
      BY <1>0, <2>2 DEF CarriedBy
    <3>4. /\ worker[w].name \in DOMAIN vaults'
          /\ vaults'[worker[w].name].files = worker[w].unit
      BY <3>1, <3>2, <3>3 DEF Commit
    <3> QED
      BY <1>7, <2>1, <3>4 DEF CarriedBy
  <2>3. CASE worker[w].pc = "wipe"
    <3>1. vaults' = vaults
      BY <2>3, Untouched
    <3> QED
      BY <1>0, <1>7, <2>1, <2>3, <3>1 DEF CarriedBy
  <2> QED
    BY <2>1, <2>2, <2>3
<1> QED
  BY <1>1, <1>2, <1>3, <1>4, <1>5, <1>6, <1>7 DEF CarriedBy

LEMMA CarriedStep ==
    ASSUME TypeInv, Alone, Carried, NothingLost, [Next]_vars
    PROVE  Carried' /\ NothingLost'
<1>i. Idle.pc = "none"
  BY DEF Idle
<1>1. ASSUME NEW w \in Workers, WorkerStep(w) PROVE Carried' /\ NothingLost'
  <2>0. Moves(w)
    BY <1>1, WorkerMoves
  <2>m. mixed' = mixed /\ cancel' = cancel
    BY <2>0 DEF Moves, ByUI
  <2> SUFFICES ASSUME ~mixed PROVE Carried' /\ NothingLost'
    BY <2>m DEF Carried, NothingLost
  <2>1. ASSUME NEW v \in Workers, v # w, Encrypts(v)' PROVE CarriedBy(v)'
    <3>1. worker'[v] = worker[v] /\ temp'[v] = temp[v] /\ CarriedBy(v)
      BY <1>1, <2>0, <2>1, TempUntouched DEF Moves, Encrypts, Carried
    <3>2. CASE w \in Busy
      <4>1. worker'[v].pc \in {"none", "unlink"}
        BY <2>1, <3>1, <3>2 DEF Alone, Busy
      <4> QED
        BY <4>1 DEF CarriedBy
    <3>3. CASE w \notin Busy
      <4>1. vaults' = vaults
        BY <1>1, <3>3, Untouched DEF Busy
      <4> QED
        BY <2>m, <3>1, <4>1 DEF CarriedBy
    <3> QED
      BY <3>2, <3>3
  <2>2. ASSUME Encrypts(w)' PROVE CarriedBy(w)'
    <3>1. CASE GoesOn(w)
      BY <1>1, <2>0, <2>2, <3>1, OwnStepCarries
    <3>2. CASE Ends(w) \/ Leaves(w)
      <4>1. worker[w] \in WorkerRec
        BY DEF TypeInv, Shape
      <4>2. worker'[w].pc \in {"none", "unlink"}
        BY <1>i, <3>2, <4>1 DEF Ends, Leaves, WorkerRec
      <4> QED
        BY <4>2 DEF CarriedBy
    <3> QED
      BY <2>0, <3>1, <3>2 DEF Moves
  <2>3. Carried'
    BY <2>1, <2>2 DEF Carried
  <2>4. CASE Commit(w)
    <3>1. worker[w].name \notin DOMAIN vaults /\ plain' = plain
      BY <2>4 DEF Commit, Alive, Carried, CarriedBy
    <3>2. \A n \in DOMAIN vaults : n \in DOMAIN vaults' /\ vaults'[n] = vaults[n]
      BY <2>4, <3>1 DEF Commit
    <3> QED
      BY <2>3, <3>1, <3>2 DEF NothingLost
  <2>5. CASE WipeOriginal(w)
    <3>1. PICK n \in DOMAIN vaults : worker[w].unit \subseteq vaults[n].files
      <4>1. Encrypts(w) /\ worker[w].pc = "wipe"
        BY <2>5 DEF WipeOriginal, Alive, TypeInv, Shape, ShapeOf, Encrypts
      <4> QED
        BY <4>1 DEF Carried, CarriedBy
    <3>2. vaults' = vaults /\ \A f \in plain \ plain' : f \in worker[w].unit
      BY <2>5 DEF WipeOriginal
    <3> QED
      BY <2>3, <3>1, <3>2 DEF NothingLost
  <2>6. CASE UNCHANGED <<plain, vaults>>
    BY <2>3, <2>6 DEF NothingLost
  <2> QED
    BY <1>1, <2>4, <2>5, <2>6, ActionAt, Untouched DEF Unzipped
<1>2. ASSUME NEW w \in Workers, Click(w) PROVE Carried' /\ NothingLost'
  <2>1. Starts(w)
    BY <1>2, ClickStarts
  <2> SUFFICES ASSUME ~mixed' PROVE Carried' /\ NothingLost'
    BY DEF Carried, NothingLost
  <2>2. ~mixed /\ Busy = {} /\ UNCHANGED <<plain, vaults>>
    BY <2>1 DEF Starts, files
  <2>3. worker'[w].pc \in {"pack", "next", "open", "report"}
        /\ \A v \in Workers : v # w => worker'[v] = worker[v]
    BY <2>1 DEF Starts
  <2>4. \A v \in Workers : worker'[v].pc \in {"none", "unlink", "pack", "next", "open", "report"}
    BY <2>2, <2>3 DEF Busy
  <2> QED
    BY <2>2, <2>4 DEF Carried, CarriedBy, NothingLost
<1>3. CASE Window
  <2>1. UNCHANGED <<worker, plain, vaults, mixed>>
    BY <1>3, WindowKeepsTypes
  <2> SUFFICES ASSUME ~mixed PROVE Carried' /\ NothingLost'
    BY <2>1 DEF Carried, NothingLost
  <2>2. ASSUME NEW w \in Workers, w \in Busy PROVE cancel' \/ (UNCHANGED <<cancel, temp>>)
    <3>1. CASE \E k \in AllKinds : ClickEncrypt(k)
      BY <2>2, <3>1 DEF ClickEncrypt, Clickable, Alone
    <3>2. CASE Close
      BY <2>2, <3>2 DEF Close, Alone
    <3>3. CASE \E v \in Workers : WipeListed(v)
      BY <2>2, <3>3 DEF WipeListed, Alone
    <3> QED
      BY <1>3, <3>1, <3>2, <3>3
      DEF Window, AddSource, TypePasswords, DialogCancelled, PollBatchDone, ClearBatch, Joined,
          files, vars
  <2>3. ASSUME NEW w \in Workers, Encrypts(w)' PROVE CarriedBy(w)'
    <3>1. CarriedBy(w) /\ worker' = worker /\ vaults' = vaults
      BY <2>1, <2>3 DEF Encrypts, Carried
    <3>2. CASE w \in Busy
      <4>1. (cancel => cancel') /\ (temp[w].zip = "plain" => temp'[w].zip = "plain" \/ cancel')
        BY <2>2, <3>2
      <4> QED
        BY <3>1, <4>1 DEF CarriedBy
    <3>3. CASE w \notin Busy
      <4>1. worker'[w].pc \in {"none", "unlink"}
        BY <3>1, <3>3 DEF Busy
      <4> QED
        BY <4>1 DEF CarriedBy
    <3> QED
      BY <3>2, <3>3
  <2> QED
    BY <2>1, <2>3 DEF Carried, NothingLost
<1>4. CASE Ending \/ Restart
  <2>1. worker' = [w \in Workers |-> Idle] /\ UNCHANGED <<plain, vaults, mixed>>
    BY <1>4, EndingKeepsTypes, RestartKeepsTypes DEF Restart, files, marks
  <2> QED
    BY <1>i, <2>1 DEF Carried, CarriedBy, NothingLost
<1> QED
  BY <1>1, <1>2, <1>3, <1>4, Cases

-----------------------------------------------------------------------------
(* Closing *)

\* Between the stage at which its zip is listed and the one that takes it off.
ListedAt == {"name", "open", "check", "chunk", "check2", "commit", "unzip", "wipe", "untrack"}

Listed ==
    /\ Running => \A w \in tracked : worker[w].pc \in ListedAt /\ worker[w].kind # "rekey"
    /\ app \in {"open", "joining"} => doomed = {} /\ cleared = {}

\* Once the closing window has its list, the workers on it make no other zip,
\* and write no plaintext into one that has been wiped.
Wiped ==
    (app = "wiping" /\ ~mixed) =>
        /\ \A w \in doomed \cup cleared :
              /\ worker[w].pc \notin {"pack", "packing", "packing2"}
              /\ worker[w].pc = "next" => worker[w].kind # "extract"
        /\ \A w \in cleared : /\ temp[w].zip # "plain"
                              /\ worker[w].pc = "chunk" => temp[w].zip = "none"

LEMMA ListedStep ==
    ASSUME TypeInv, Listed, [Next]_vars
    PROVE  Listed'
<1>i. Idle.pc = "none"
  BY DEF Idle
<1>1. ASSUME NEW w \in Workers, WorkerStep(w) PROVE Listed'
  <2>0. Moves(w) /\ ShapeOf(worker[w]) /\ worker \in [Workers -> WorkerRec]
    BY <1>1, WorkerMoves DEF TypeInv, Shape
  <2>1. UNCHANGED <<app, doomed, cleared>> /\ Running
    BY <2>0 DEF Moves, ByUI, appVars
  <2>2. ASSUME NEW v \in tracked', v # w PROVE worker'[v].pc \in ListedAt /\ worker'[v].kind # "rekey"
    <3>1. tracked' \subseteq tracked \cup {w} /\ tracked \subseteq Workers
      BY <1>1, ActionAt, Untouched DEF NextSource, Packed, Untrack, TypeInv, WorkTypes
    <3> QED
      BY <2>0, <2>1, <2>2, <3>1 DEF Moves, Listed
  <2>3. ASSUME w \in tracked' PROVE worker'[w].pc \in ListedAt /\ worker'[w].kind # "rekey"
    <3>1. CASE worker[w].pc = "next"
      <4>1. NextSource(w)
        BY <1>1, <3>1, ActionAt
      <4>2. CASE tracked' = tracked
        BY <2>1, <2>3, <3>1, <4>2 DEF Listed, ListedAt
      <4>3. CASE tracked' # tracked
        <5>1. ~Encrypts(w) /\ \E s \in worker[w].todo :
                 SetWorker(w, [worker[w] EXCEPT !.pc = "open", !.todo = @ \ {s}])
          BY <4>1, <4>3 DEF NextSource
        <5>2. worker'[w].pc = "open" /\ worker'[w].kind = worker[w].kind
          BY <2>0, <5>1 DEF SetWorker, WorkerRec
        <5> QED
          BY <2>0, <3>1, <5>2 DEF ListedAt, ShapeOf
      <4> QED
        BY <4>2, <4>3
    <3>2. CASE worker[w].pc = "packing"
      <4>1. Packed(w)
        BY <1>1, <3>2, ActionAt
      <4>2. CASE tracked' = tracked
        BY <2>1, <2>3, <3>2, <4>2 DEF Listed, ListedAt
      <4>3. CASE tracked' # tracked
        <5>1. worker[w].kind = "encrypt" /\ GoTo(w, "name")
          BY <4>1, <4>3 DEF Packed
        <5>2. worker'[w].pc = "name" /\ worker'[w].kind = worker[w].kind
          BY <2>0, <5>1, GoToFacts DEF Stages
        <5> QED
          BY <5>1, <5>2 DEF ListedAt
      <4> QED
        BY <4>2, <4>3
    <3>3. CASE worker[w].pc = "untrack"
      BY <1>1, <2>3, <3>3, ActionAt DEF Untrack
    <3>4. CASE worker[w].pc \notin {"next", "packing", "untrack"}
      <4>1. worker[w].pc \in ListedAt /\ worker[w].kind # "rekey"
        BY <1>1, <2>1, <2>3, <3>4, Untouched DEF Listed
      <4>2. GoesOn(w)
        BY <2>0, <4>1 DEF Moves, Ends, Leaves, ListedAt
      <4> QED
        BY <3>4, <4>1, <4>2 DEF GoesOn, Edge, ListedAt
    <3> QED
      BY <3>1, <3>2, <3>3, <3>4
  <2> QED
    BY <2>1, <2>2, <2>3 DEF Listed
<1>2. ASSUME NEW w \in Workers, Click(w) PROVE Listed'
  <2>1. Starts(w)
    BY <1>2, ClickStarts
  <2>2. w \notin tracked /\ tracked' = tracked /\ tracked \subseteq Workers
        /\ UNCHANGED <<app, doomed, cleared>>
    BY <1>i, <2>1 DEF Starts, Free, Listed, ListedAt, Running, files, appVars, TypeInv, WorkTypes
  <2> QED
    BY <2>1, <2>2 DEF Starts, Listed, Running
<1>3. CASE Window
  <2>1. UNCHANGED worker
    BY <1>3, WindowKeepsTypes
  <2>2. UNCHANGED tracked /\ (Running' <=> Running)
    BY <1>3 DEF Window, AddSource, TypePasswords, DialogCancelled, PollBatchDone, ClearBatch,
         ClickEncrypt, WipeListed, Close, Joined, files, appVars, vars, Running
  <2>3. \/ UNCHANGED <<app, doomed, cleared>>
        \/ app \notin {"open", "joining"} /\ UNCHANGED app
        \/ app = "open" /\ app' = "joining" /\ doomed' = {} /\ UNCHANGED cleared
        \/ app' = "wiping"
    BY <1>3 DEF Window, AddSource, TypePasswords, DialogCancelled, PollBatchDone, ClearBatch,
         ClickEncrypt, WipeListed, Close, Joined, appVars, vars
  <2> QED
    BY <2>1, <2>2, <2>3 DEF Listed
<1>4. CASE Ending
  BY <1>4, EndingKeepsTypes DEF Listed, Running
<1>5. CASE Restart
  BY <1>5 DEF Restart, Listed
<1> QED
  BY <1>1, <1>2, <1>3, <1>4, <1>5, Cases

\* The step of a worker that is on the list, or was.
LEMMA OwnStepWiped ==
    ASSUME TypeInv, Alone, Wiped, app = "wiping", ~mixed,
           NEW w \in doomed \cup cleared, WorkerStep(w)
    PROVE  /\ worker'[w].pc \notin {"pack", "packing", "packing2"}
           /\ worker'[w].pc = "next" => worker'[w].kind # "extract"
           /\ w \in cleared => /\ temp'[w].zip # "plain"
                               /\ worker'[w].pc = "chunk" => temp'[w].zip = "none"
<1>0. /\ w \in Workers /\ temp \in [Workers -> TempRec] /\ temp[w] \in TempRec
      /\ worker \in [Workers -> WorkerRec] /\ ShapeOf(worker[w])
  BY DEF TypeInv, WindowTypes, WorkTypes, Shape
<1>m. Moves(w)
  BY <1>0, WorkerMoves
<1>p. /\ worker[w].pc \notin {"pack", "packing", "packing2"}
      /\ worker[w].pc = "next" => worker[w].kind # "extract"
      /\ w \in cleared => temp[w].zip # "plain" /\ (worker[w].pc = "chunk" => temp[w].zip = "none")
  BY DEF Wiped
<1>1. CASE Ends(w) \/ Leaves(w)
  <2>1. worker'[w].pc \in {"none", "unlink"}
    BY <1>0, <1>1 DEF Ends, Leaves, WorkerRec, Idle
  <2>2. temp'[w] \in {temp[w], NoTemp}
    <3>1. CASE worker[w].pc = "clean"
      <4>1. UNCHANGED temp \/ temp' = [temp EXCEPT ![w] = NoTemp]
        BY <1>0, <3>1, ActionAt DEF Clean
      <4> QED
        BY <1>0, <4>1
    <3>2. CASE worker[w].pc \in {"report", "unlink"}
      BY <1>0, <3>2, TempUntouched
    <3> QED
      BY <1>1, <3>1, <3>2 DEF Ends, Leaves
  <2> QED
    BY <1>p, <2>1, <2>2 DEF NoTemp
<1>2. CASE GoesOn(w)
  <2>c. cancel
    <3>1. w \in Busy
      BY <1>0, <1>2 DEF GoesOn, Edge, Busy
    <3> QED
      BY <3>1 DEF Alone
  <2>1. worker'[w].pc \notin {"pack", "packing", "packing2"}
    <3>1. CASE worker[w].pc = "next"
      <4>1. SetWorker(w, [worker[w] EXCEPT !.pc = "report", !.cancelled = @ \/ cancel])
        BY <1>0, <1>p, <2>c, <3>1, ActionAt DEF NextSource
      <4>2. worker'[w].pc = "report"
        BY <1>0, <4>1 DEF SetWorker, WorkerRec
      <4> QED
        BY <4>2
    <3>2. CASE worker[w].pc # "next"
      BY <1>2, <1>p, <3>2 DEF GoesOn, Edge
    <3> QED
      BY <3>1, <3>2
  <2>2. worker'[w].pc = "next" => worker'[w].kind # "extract"
    BY <1>2, <1>p DEF GoesOn, Edge
  <2>3. worker'[w].pc # "chunk"
    <3>1. CASE worker[w].pc = "check"
      <4>1. Cancelled(w)
        BY <1>0, <2>c, <3>1, ActionAt DEF FirstCheck, Check
      <4>2. worker'[w].pc = "untrack"
        BY <1>0, <4>1, GoToFacts DEF Stages
      <4> QED
        BY <4>2
    <3>2. CASE worker[w].pc # "check"
      BY <1>2, <3>2 DEF GoesOn, Edge
    <3> QED
      BY <3>1, <3>2
  <2>4. ASSUME w \in cleared PROVE temp'[w].zip # "plain"
    <3>1. CASE worker[w].pc = "next"
      <4>1. temp' = temp
        BY <1>0, <1>p, <2>c, <3>1, ActionAt DEF NextSource
      <4> QED
        BY <1>p, <2>4, <4>1
    <3>2. CASE worker[w].pc = "open"
      <4>1. UNCHANGED temp \/ temp' = [temp EXCEPT ![w].zip = "empty"]
        BY <1>0, <3>2, ActionAt DEF OpenOutput, RekeyOpen
      <4> QED
        BY <1>0, <1>p, <2>4, <4>1 DEF TempRec
    <3>3. CASE worker[w].pc = "chunk"
      <4>1. UNCHANGED temp \/ temp' = [temp EXCEPT ![w].zip = "none"]
        <5>1. temp[w].zip = "none"
          BY <1>p, <2>4, <3>3
        <5>2. CASE ReadChunks(w)
          BY <5>2 DEF ReadChunks, files
        <5>3. CASE WriteChunks(w)
          <6>1. PICK wrote \in BOOLEAN :
                   temp' = [temp EXCEPT ![w].zip = IF wrote /\ @ # "none" THEN "plain" ELSE @]
            BY <5>3 DEF WriteChunks
          <6>2. temp' = [temp EXCEPT ![w].zip = "none"]
            BY <1>0, <5>1, <6>1
          <6> QED
            BY <6>2
        <5> QED
          BY <1>0, <3>3, <5>2, <5>3, ActionAt
      <4> QED
        BY <1>0, <1>p, <2>4, <4>1 DEF TempRec
    <3>4. CASE worker[w].pc \in {"unzip", "commit"}
      <4>1. UNCHANGED temp \/ \E x : temp' = [temp EXCEPT ![w].second = x]
        BY <1>0, <3>4, ActionAt DEF Unzip, Unzipped, Commit
      <4> QED
        BY <1>0, <1>p, <2>4, <4>1 DEF TempRec
    <3>5. CASE worker[w].pc = "clean"
      <4>1. UNCHANGED temp \/ temp' = [temp EXCEPT ![w] = NoTemp]
        BY <1>0, <3>5, ActionAt DEF Clean
      <4> QED
        BY <1>0, <1>p, <2>4, <4>1 DEF NoTemp
    <3>6. CASE temp' = temp
      BY <1>p, <2>4, <3>6
    <3> QED
      BY <1>0, <1>p, <3>1, <3>2, <3>3, <3>4, <3>5, <3>6, TempUntouched
  <2> QED
    BY <2>1, <2>2, <2>3, <2>4
<1> QED
  BY <1>m, <1>1, <1>2 DEF Moves

LEMMA WipedStep ==
    ASSUME TypeInv, Alone, Listed, Wiped, ExitClean, [Next]_vars
    PROVE  Wiped' /\ ExitClean'
<1>t. temp \in [Workers -> TempRec] /\ tracked \subseteq Workers /\ doomed \subseteq Workers
      /\ cleared \subseteq Workers
  BY DEF TypeInv, WorkTypes, WindowTypes
<1>1. ASSUME NEW w \in Workers, WorkerStep(w) PROVE Wiped' /\ ExitClean'
  <2>0. Moves(w)
    BY <1>1, WorkerMoves
  <2>1. UNCHANGED <<app, doomed, cleared, mixed>> /\ app \in {"open", "joining", "wiping"}
    BY <2>0 DEF Moves, ByUI, appVars, Running
  <2>2. ASSUME app = "wiping", ~mixed PROVE Wiped'
    <3>1. \A v \in Workers : v # w => worker'[v] = worker[v] /\ temp'[v] = temp[v]
      BY <1>1, <2>0, TempUntouched DEF Moves
    <3>2. w \in doomed \cup cleared =>
              /\ worker'[w].pc \notin {"pack", "packing", "packing2"}
              /\ worker'[w].pc = "next" => worker'[w].kind # "extract"
              /\ w \in cleared => /\ temp'[w].zip # "plain"
                                  /\ worker'[w].pc = "chunk" => temp'[w].zip = "none"
      BY <1>1, <2>2, OwnStepWiped
    <3>3. ASSUME NEW v \in doomed \cup cleared
          PROVE  /\ worker'[v].pc \notin {"pack", "packing", "packing2"}
                 /\ worker'[v].pc = "next" => worker'[v].kind # "extract"
                 /\ v \in cleared => /\ temp'[v].zip # "plain"
                                     /\ worker'[v].pc = "chunk" => temp'[v].zip = "none"
      <4>1. CASE v = w
        BY <3>2, <3>3, <4>1
      <4>2. CASE v # w
        <5>1. worker'[v] = worker[v] /\ temp'[v] = temp[v]
          BY <1>t, <3>1, <4>2
        <5>2. /\ worker[v].pc \notin {"pack", "packing", "packing2"}
              /\ worker[v].pc = "next" => worker[v].kind # "extract"
              /\ v \in cleared => /\ temp[v].zip # "plain"
                                  /\ worker[v].pc = "chunk" => temp[v].zip = "none"
          BY <2>2, <3>3 DEF Wiped
        <5> QED
          BY <5>1, <5>2
      <4> QED
        BY <4>1, <4>2
    <3> QED
      BY <2>1, <3>3 DEF Wiped
  <2> QED
    BY <2>1, <2>2 DEF Wiped, ExitClean
<1>2. ASSUME NEW w \in Workers, Click(w) PROVE Wiped' /\ ExitClean'
  <2>1. app' = "open"
    BY <1>2, ClickStarts DEF Starts, appVars
  <2> QED
    BY <2>1 DEF Wiped, ExitClean
<1>3. CASE Window
  <2>1. UNCHANGED <<worker, mixed>>
    BY <1>3, WindowKeepsTypes
  <2>2. CASE Close \/ Joined
    <3>1. /\ app \in {"open", "joining"} /\ app' \in {"joining", "wiping"}
          /\ app' = "wiping" => doomed' = tracked
          /\ UNCHANGED <<cleared, temp>>
      BY <2>2 DEF Close, Joined, files
    <3>2. cleared' = {} /\ (app' = "wiping" => \A w \in doomed' : worker[w].pc \in ListedAt)
      BY <3>1 DEF Listed, Running
    <3> QED
      BY <2>1, <3>1, <3>2 DEF Wiped, ExitClean, ListedAt
  <2>3. ASSUME NEW w \in Workers, WipeListed(w) PROVE Wiped' /\ ExitClean'
    <3>1. app = "wiping" /\ app' = "wiping" /\ w \in doomed /\ doomed' = doomed \ {w}
      BY <2>3 DEF WipeListed
    <3>2. CASE UNCHANGED <<temp, cleared>>
      BY <2>1, <3>1, <3>2 DEF Wiped, ExitClean
    <3>3. CASE temp' = [temp EXCEPT ![w].zip = "none"] /\ cleared' = cleared \cup {w}
      <4>1. temp'[w].zip = "none" /\ \A v \in Workers : v # w => temp'[v] = temp[v]
        BY <1>t, <3>3 DEF TempRec
      <4> QED
        BY <1>t, <2>1, <3>1, <3>3, <4>1 DEF Wiped, ExitClean
    <3> QED
      BY <2>3, <3>2, <3>3 DEF WipeListed
  <2>4. CASE UNCHANGED <<app, doomed, cleared, temp>>
    BY <2>1, <2>4 DEF Wiped, ExitClean
  <2> QED
    BY <1>3, <2>2, <2>3, <2>4
    DEF Window, AddSource, TypePasswords, DialogCancelled, PollBatchDone, ClearBatch,
        ClickEncrypt, files, appVars, vars
<1>4. CASE Destroy
  <2>1. app = "wiping" /\ app' = "closed" /\ UNCHANGED <<temp, cleared, mixed>>
    BY <1>4 DEF Destroy, Gone, files, marks
  <2> QED
    BY <2>1 DEF Wiped, ExitClean
<1>5. CASE Kill \/ Restart
  BY <1>5 DEF Kill, Gone, Restart, Wiped, ExitClean
<1> QED
  BY <1>1, <1>2, <1>3, <1>4, <1>5, Cases DEF Ending

-----------------------------------------------------------------------------
(* Temporary plaintext *)

\* Between two sources, and at the end, a worker has no plaintext; a re-key
\* never has any.
Tidy ==
    Running => \A w \in Workers :
        (worker[w].pc \in {"none", "next", "report", "unlink"} \/ worker[w].kind = "rekey")
            => temp[w] = NoTemp

\* Only what could not be removed is left, and output folders of processes
\* that ended too early.
Spared ==
    /\ rests # {} => failed \/ (halfway /\ rests = {"output"})
    /\ ~Running => \A w \in Workers : temp[w].second = "output" => halfway

LEMMA SparedStep ==
    ASSUME TypeInv, Spared, [Next]_vars
    PROVE  Spared'
<1>1. ASSUME NEW w \in Workers, WorkerStep(w) PROVE Spared'
  <2>1. Running'
    BY <1>1, WorkerMoves DEF Moves, ByUI, appVars, Running
  <2>2. UNCHANGED left \/ failed'
    BY <1>1, Untouched
  <2> QED
    BY <2>1, <2>2 DEF Spared, left
<1>2. ASSUME NEW w \in Workers, Click(w) PROVE Spared'
  <2>1. Running' /\ UNCHANGED left
    BY <1>2, ClickStarts DEF Starts, appVars, Running
  <2> QED
    BY <2>1 DEF Spared, left
<1>3. CASE Window
  <2>1. UNCHANGED left
    BY <1>3, WindowKeepsTypes
  <2>2. (Running' <=> Running) /\ (~Running => UNCHANGED temp)
    BY <1>3 DEF Window, AddSource, TypePasswords, DialogCancelled, PollBatchDone, ClearBatch,
         ClickEncrypt, WipeListed, Close, Joined, files, appVars, vars, Running
  <2> QED
    BY <2>1, <2>2 DEF Spared, left
<1>4. CASE Ending
  <2>1. /\ UNCHANGED <<rests, failed, temp>>
        /\ halfway' <=> (halfway \/ \E w \in Workers : temp[w].second = "output")
    BY <1>4, EndingKeepsTypes DEF files
  <2> QED
    BY <2>1 DEF Spared
<1>5. CASE Restart
  <2> DEFINE there == rests \cup UNION {OnDisk(temp[w]) : w \in Workers}
  <2>1. PICK kept \in SUBSET (there \ {"output"}) :
           /\ rests' = kept \cup (there \cap {"output"})
           /\ failed' = (failed \/ kept # {})
    BY <1>5 DEF Restart
  <2>2. ~Running /\ Running' /\ UNCHANGED halfway
    BY <1>5 DEF Restart, Running
  <2>3. "output" \in there => failed \/ halfway
    <3>1. ASSUME NEW w \in Workers, "output" \in OnDisk(temp[w]) PROVE halfway
      <4>1. temp[w].second = "output"
        BY <3>1 DEF OnDisk
      <4> QED
        BY <2>2, <4>1 DEF Spared
    <3>2. ASSUME "output" \in rests PROVE failed \/ halfway
      BY <3>2 DEF Spared
    <3> QED
      BY <3>1, <3>2
  <2> HIDE DEF there
  <2>4. ASSUME rests' # {}, ~failed' PROVE halfway' /\ rests' = {"output"}
    <3>1. kept = {} /\ ~failed
      BY <2>1, <2>4
    <3>2. rests' = {"output"} /\ "output" \in there
      BY <2>1, <2>4, <3>1
    <3> QED
      BY <2>2, <2>3, <3>1, <3>2
  <2> QED
    BY <2>2, <2>4 DEF Spared
<1> QED
  BY <1>1, <1>2, <1>3, <1>4, <1>5, Cases

LEMMA TidyStep ==
    ASSUME TypeInv, Tidy, [Next]_vars
    PROVE  Tidy'
<1>t. temp \in [Workers -> TempRec]
  BY DEF TypeInv, WorkTypes, left
<1>1. ASSUME NEW w \in Workers, WorkerStep(w) PROVE Tidy'
  <2>0. Moves(w) /\ ShapeOf(worker[w]) /\ worker[w] \in WorkerRec
    BY <1>1, WorkerMoves DEF TypeInv, Shape
  <2>1. Running /\ \A v \in Workers : v # w => worker'[v] = worker[v] /\ temp'[v] = temp[v]
    BY <1>1, <2>0, TempUntouched DEF Moves
  <2>3. ASSUME worker'[w].pc \in {"none", "next", "report", "unlink"} \/ worker'[w].kind = "rekey"
        PROVE  temp'[w] = NoTemp
    <3>1. CASE worker[w].pc = "clean"
      <4>1. temp' = [temp EXCEPT ![w] = NoTemp]
        BY <1>1, <2>3, <3>1, ActionAt DEF Clean
      <4> QED
        BY <1>t, <4>1
    <3>2. CASE worker[w].kind = "rekey"
      BY <1>1, <2>1, <2>3, <3>2, TempUntouched DEF Tidy
    <3>3. CASE worker[w].pc # "clean" /\ worker[w].kind # "rekey"
      <4>1. worker[w].pc \in {"next", "report"} /\ worker'[w].pc \in {"none", "report"}
        <5>1. CASE GoesOn(w)
          BY <2>0, <2>3, <3>3, <5>1 DEF GoesOn, Edge, ShapeOf
        <5>2. CASE Ends(w) \/ Leaves(w)
          BY <2>0, <3>3, <5>2 DEF Ends, Leaves, ShapeOf, Idle
        <5> QED
          BY <2>0, <5>1, <5>2 DEF Moves
      <4>2. temp' = temp
        <5>1. CASE worker[w].pc = "next"
          <6>1. NextSource(w) /\ worker'[w].pc = "report"
            BY <1>1, <2>0, <4>1, <5>1, ActionAt DEF Moves, GoesOn, Edge, Ends, Leaves
          <6>2. CASE UNCHANGED temp
            BY <6>2
          <6>3. CASE \E s \in worker[w].todo :
                        SetWorker(w, [worker[w] EXCEPT !.pc = "open", !.todo = @ \ {s}])
            <7>1. worker'[w].pc = "open"
              BY <2>0, <6>3 DEF SetWorker, TypeInv, Shape, WorkerRec
            <7> QED
              BY <6>1, <7>1
          <6> QED
            BY <6>1, <6>2, <6>3 DEF NextSource
        <5>2. CASE worker[w].pc = "report"
          BY <1>1, <5>2, TempUntouched
        <5> QED
          BY <4>1, <5>1, <5>2
      <4> QED
        BY <2>1, <2>3, <4>1, <4>2 DEF Tidy
    <3> QED
      BY <3>1, <3>2, <3>3
  <2> QED
    BY <2>1, <2>3 DEF Tidy
<1>2. ASSUME NEW w \in Workers, Click(w) PROVE Tidy'
  <2>1. Starts(w)
    BY <1>2, ClickStarts
  <2> QED
    BY <2>1 DEF Starts, Free, files, Tidy, Running
<1>3. CASE Window
  <2>1. UNCHANGED worker
    BY <1>3, WindowKeepsTypes
  <2>2. Running' <=> Running
    BY <1>3 DEF Window, AddSource, TypePasswords, DialogCancelled, PollBatchDone, ClearBatch,
         ClickEncrypt, WipeListed, Close, Joined, appVars, vars, Running
  <2>3. \A v \in Workers : temp[v] = NoTemp => temp'[v] = NoTemp
    <3>1. ASSUME NEW w \in Workers, WipeListed(w)
          PROVE  \A v \in Workers : temp[v] = NoTemp => temp'[v] = NoTemp
      <4>1. UNCHANGED temp \/ temp' = [temp EXCEPT ![w].zip = "none"]
        BY <3>1 DEF WipeListed
      <4> QED
        BY <1>t, <4>1 DEF NoTemp, TempRec
    <3>2. CASE UNCHANGED temp
      BY <3>2
    <3> QED
      BY <1>3, <3>1, <3>2
      DEF Window, AddSource, TypePasswords, DialogCancelled, PollBatchDone, ClearBatch,
          ClickEncrypt, Close, Joined, files, marks, vars
  <2> QED
    BY <2>1, <2>2, <2>3 DEF Tidy
<1>4. CASE Ending
  BY <1>4, EndingKeepsTypes DEF Tidy
<1>5. CASE Restart
  BY <1>5 DEF Restart, Tidy
<1> QED
  BY <1>1, <1>2, <1>3, <1>4, <1>5, Cases

-----------------------------------------------------------------------------
(* What holds *)

\* The part that does not depend on operations overlapping, and the rest.
Inv ==
    /\ TypeInv /\ FlagOwned /\ Passwords /\ NoEmptyPassword /\ Listed /\ Tidy /\ Spared
    /\ Alone /\ RekeyTmp /\ VaultWhole /\ Carried /\ NothingLost /\ Wiped /\ ExitClean

LEMMA Initially == Init => Inv
<1> SUFFICES ASSUME Init PROVE Inv
  OBVIOUS
<1>1. worker = [w \in Workers |-> Idle] /\ temp = [w \in Workers |-> NoTemp] /\ Idle.pc = "none"
      /\ Idle.kind = "other" /\ msg_queue = <<>> /\ app = "open" /\ dialog = "closed"
  BY DEF Init, Idle
<1>2. TypeInv
  <2>1. form \in FormRec /\ vault \in VaultRec
    BY DEF Init, FormRec, VaultRec
  <2>2. WindowTypes
    BY <2>1 DEF Init, WindowTypes
  <2>3. WorkTypes
    <3>1. temp \in [Workers -> TempRec]
      BY <1>1, IdleType
    <3>2. msg_queue \in Seq(Texts)
      BY <1>1
    <3>3. tracked = {} /\ plain = Files \cup Hidden /\ lost = FALSE
          /\ rests = {} /\ failed = FALSE /\ halfway = FALSE
      BY DEF Init
    <3> QED
      BY <2>1, <3>1, <3>2, <3>3 DEF WorkTypes
  <2>4. Shape
    BY <1>1, IdleType DEF Shape, Running
  <2> QED
    BY <2>2, <2>3, <2>4 DEF TypeInv
<1>3. Busy = {}
  BY <1>1, NobodyBusy
<1>4. FlagOwned /\ Alone
  BY <1>1, <1>3 DEF Init, FlagOwned, Alone
<1>5. Passwords /\ NoEmptyPassword /\ RekeyTmp /\ VaultWhole
  BY <1>1 DEF Init, Passwords, NoEmptyPassword, RekeyTmp, VaultWhole
<1>6. Carried /\ NothingLost /\ Listed /\ Wiped /\ ExitClean /\ Tidy /\ Spared
  BY <1>1 DEF Init, Carried, CarriedBy, NothingLost, Listed, Wiped, ExitClean, Tidy, Spared,
              Running
<1> QED
  BY <1>2, <1>4, <1>5, <1>6 DEF Inv

LEMMA Invariance == Spec => []Inv
<1>1. Inv /\ [Next]_vars => Inv'
  BY TypeStep, OwnedStep, AloneStep, PasswordsStep, RekeyStep, CarriedStep, ListedStep,
     WipedStep, TidyStep, SparedStep DEF Inv
<1> QED
  BY <1>1, Initially, PTL DEF Spec

\* The flag of the older window is never left up with nobody to lower it, in
\* whatever way its operations overlap; only a batch_done that could not be
\* queued leaves it up.
THEOREM FlagIsOwned == Spec => []FlagOwned
BY Invariance, PTL DEF Inv

\* A hidden vault is never made with an empty hidden password, although the
\* timer of an earlier batch may clear the form behind the dialog: it clears
\* the queue as well, and nothing is packed.
THEOREM HiddenPasswordSet == Spec => []NoEmptyPassword
BY Invariance, PTL DEF Inv

\* A worker that has ended has left no plaintext, and a start removes what
\* earlier processes left: all that stays is what could not be removed, and the
\* output folder of a decryption whose process ended before it.
THEOREM TempsAreGone == Spec => []TempsGone
<1>1. Inv => TempsGone
  BY DEF Inv, Tidy, Spared, TempsGone, Running
<1> QED
  BY <1>1, Invariance, PTL

\* Unless an operation was started beside another: the vault that is re-keyed
\* is whole at any time, although a worker removes the temporary file after its
\* last message, when the next re-key may be writing it.
THEOREM RekeyedVaultWhole == Spec => []VaultWhole
BY Invariance, PTL DEF Inv

\* Unless an operation was started beside another: an original that is gone is
\* in a vault, whenever the window is closed or the process killed.
THEOREM OriginalsKept == Spec => []NothingLost
BY Invariance, PTL DEF Inv

\* Unless an operation was started beside another: a zip wiped by the closing
\* window is not written again by a worker that outlived the three seconds.
THEOREM ExitIsClean == Spec => []ExitClean
BY Invariance, PTL DEF Inv
=============================================================================
