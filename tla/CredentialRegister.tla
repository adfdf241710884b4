------------------------- MODULE CredentialRegister -------------------------
(***************************************************************************)
(* What a vault file promises about its main password.  Requests to change *)
(* it come from several clients.  Each takes effect in one indivisible     *)
(* step between its arrival and its answer, or not at all: a re-key only   *)
(* for who gave the password in force, a roll-back only to a password of   *)
(* an archived copy, NoPw if that copy is unreadable.  "done" means that   *)
(* the request took effect and "refused" that it did not; "failed" leaves  *)
(* it open.  A power cut may forget requests that have not been answered,  *)
(* never half-grant one.                                                   *)
(***************************************************************************)
EXTENDS Naturals

CONSTANTS Passwords, NoPw, Clients

VARIABLES
    password,  \* the main password in force
    archive,   \* main passwords of the copies that can be put back
    asked,     \* the open request of each client, and whether it took effect
    answer     \* the answer to its last one

rvars == <<password, archive, asked, answer>>

NoReq == [op |-> "none", old |-> NoPw, new |-> NoPw, status |-> "open"]

Requests ==
    [op: {"rekey"}, old: Passwords, new: Passwords, status: {"open"}]
      \cup [op: {"rollback"}, old: {NoPw}, new: Passwords \cup {NoPw}, status: {"open"}]

Init ==
    /\ password \in Passwords
    /\ archive = {}
    /\ asked = [c \in Clients |-> NoReq]
    /\ answer = [c \in Clients |-> "none"]

Ask(c, req) ==
    /\ asked[c] = NoReq
    /\ req.op = "rekey" => req.old # req.new
    /\ req.op = "rollback" => req.new \in archive
    /\ asked' = [asked EXCEPT ![c] = req]
    /\ answer' = [answer EXCEPT ![c] = "none"]
    /\ UNCHANGED <<password, archive>>

Grant(c) ==
    /\ asked[c] # NoReq
    /\ asked[c].status = "open"
    /\ asked[c].op = "rekey" => asked[c].old = password
    /\ password' = asked[c].new
    /\ asked' = [asked EXCEPT ![c].status = "granted"]
    /\ UNCHANGED <<archive, answer>>

Reply(c, text) ==
    /\ asked[c] # NoReq
    /\ text = "done" => asked[c].status = "granted"
    /\ text = "refused" => asked[c].status = "open"
    /\ asked' = [asked EXCEPT ![c] = NoReq]
    /\ answer' = [answer EXCEPT ![c] = text]
    /\ UNCHANGED <<password, archive>>

\* Copies are made of the vault as it is, in full or not, and may be dropped.
Archive ==
    /\ archive' \in SUBSET (archive \cup {password, NoPw})
    /\ UNCHANGED <<password, asked, answer>>

PowerCut ==
    /\ asked' = [c \in Clients |-> NoReq]
    /\ answer' = [c \in Clients |-> "none"]
    /\ UNCHANGED <<password, archive>>

Next ==
    \/ \E c \in Clients, req \in Requests : Ask(c, req)
    \/ \E c \in Clients : Grant(c)
    \/ \E c \in Clients, text \in {"done", "refused", "failed"} : Reply(c, text)
    \/ Archive
    \/ PowerCut

Spec == Init /\ [][Next]_rvars
=============================================================================
