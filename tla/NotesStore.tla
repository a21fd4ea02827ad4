----------------------------- MODULE NotesStore -----------------------------
(***************************************************************************)
(* The Git notes reference as a compare-and-swap register:                 *)
(* NotificationNotes.Read and Write (internal/git/notes.go) under the      *)
(* retry loop of store.Commit.                                             *)
(*                                                                         *)
(* A notes commit has one parent, so it is named here by the sequence of   *)
(* updates on its chain; the empty sequence is the absent reference.  Each *)
(* process keeps the tip it last verified (knownTip) and the tip it last   *)
(* pushed (pushedTip).  A read is two remote calls, the advertisement and, *)
(* when the tip is not the known one, a fetch that may find a newer one.   *)
(* A write skips its own read when it appends to pushedTip, and leaves the *)
(* comparison to the push lease.                                           *)
(***************************************************************************)
EXTENDS Naturals, Sequences, SequencesExt

CONSTANTS
  Writers,      \* processes, each committing updates of its own
  MaxCommits,   \* updates each process attempts
  MaxAttempts,  \* passes of store.Commit before it gives up (five)
  MaxFaults     \* bound on remote calls that fail or lose their reply

ASSUME BoundAssumption ==
  {MaxCommits, MaxAttempts, MaxFaults} \subseteq Nat

VARIABLES
  remote,     \* the tip of the notes reference
  knownTip, pushedTip,
  pc,         \* where each process is in Commit
  advertised, \* what its last ls-remote answered
  expected,   \* the tip its transition was evaluated on
  attempts,   \* passes of the current Commit
  commits,    \* Commits started
  acked,      \* commits whose push was reported successful (history)
  faults

vars == <<remote, knownTip, pushedTip, pc, advertised, expected, attempts,
          commits, acked, faults>>
local == <<knownTip, pushedTip, advertised, expected, attempts, commits, acked>>

Tips == Seq(Writers)
NoTip == << >>

(* "read"/"fetch": Commit's own read; "prewrite"/"prefetch": the read      *)
(* inside Write; "recheck"/"refetch": the read after a failed push.        *)
Advertising == {"read", "prewrite", "recheck"}
Fetching == {"fetch", "prefetch", "refetch"}
Stages == {"idle", "write", "push"} \cup Advertising \cup Fetching

FetchFor ==
  [s \in Advertising |-> IF s = "read" THEN "fetch"
                         ELSE IF s = "prewrite" THEN "prefetch" ELSE "refetch"]

TypeOK ==
  /\ remote \in Tips
  /\ {knownTip, pushedTip, advertised, expected} \subseteq [Writers -> Tips]
  /\ pc \in [Writers -> Stages]
  /\ attempts \in [Writers -> Nat] /\ commits \in [Writers -> Nat]
  /\ acked \subseteq Tips
  /\ faults \in Nat

Init ==
  /\ remote = NoTip
  /\ knownTip = [w \in Writers |-> NoTip]
  /\ pushedTip = [w \in Writers |-> NoTip]
  /\ pc = [w \in Writers |-> "idle"]
  /\ advertised = [w \in Writers |-> NoTip]
  /\ expected = [w \in Writers |-> NoTip]
  /\ attempts = [w \in Writers |-> 0]
  /\ commits = [w \in Writers |-> 0]
  /\ acked = {}
  /\ faults = 0

Commit(w) ==
  /\ pc[w] = "idle" /\ commits[w] < MaxCommits
  /\ pc' = [pc EXCEPT ![w] = "read"]
  /\ commits' = [commits EXCEPT ![w] = @ + 1]
  /\ attempts' = [attempts EXCEPT ![w] = 1]
  /\ UNCHANGED <<remote, knownTip, pushedTip, advertised, expected, acked, faults>>

(* Another pass over fresh state, or ErrConflict after the last one.       *)
AfterConflict(w) ==
  IF attempts[w] < MaxAttempts
  THEN /\ pc' = [pc EXCEPT ![w] = "read"]
       /\ attempts' = [attempts EXCEPT ![w] = @ + 1]
  ELSE /\ pc' = [pc EXCEPT ![w] = "idle"]
       /\ attempts' = attempts

MutantPushRetried(w, tip) ==
  IF pc[w] \in {"read", "fetch"}
  THEN /\ expected' = [expected EXCEPT ![w] = tip]
       /\ pc' = [pc EXCEPT ![w] = "write"]
       /\ UNCHANGED attempts
  ELSE /\ pc' = [pc EXCEPT ![w] =
                   IF @ \in {"prewrite", "prefetch"} \/ tip # expected[w]
                   THEN "push" ELSE "idle"]
       /\ UNCHANGED <<attempts, expected>>

(* A read has returned tip: what the caller of the read does with it.      *)
ReadReturns(w, tip) ==
  \/ /\ pc[w] \in {"read", "fetch"}
     /\ expected' = [expected EXCEPT ![w] = tip]
     /\ pc' = [pc EXCEPT ![w] = "write"]
     /\ UNCHANGED attempts
  \/ /\ pc[w] \notin {"read", "fetch"} /\ tip = expected[w]
     /\ pc' = [pc EXCEPT ![w] = IF @ \in {"prewrite", "prefetch"} THEN "push"
                                ELSE "idle"]
     /\ UNCHANGED <<attempts, expected>>
  \/ /\ pc[w] \notin {"read", "fetch"} /\ tip # expected[w]
     /\ AfterConflict(w)
     /\ UNCHANGED expected

(* ls-remote.  An unchanged or absent tip needs no fetch.                  *)
Advertise(w) ==
  /\ pc[w] \in Advertising
  /\ advertised' = [advertised EXCEPT ![w] = remote]
  /\ IF remote \in {NoTip, knownTip[w]}
     THEN ReadReturns(w, remote)
     ELSE /\ pc' = [pc EXCEPT ![w] = FetchFor[@]]
          /\ UNCHANGED <<attempts, expected>>
  /\ UNCHANGED <<remote, knownTip, pushedTip, commits, acked, faults>>

Fetch(w) ==
  /\ pc[w] \in Fetching
  /\ knownTip' = [knownTip EXCEPT ![w] = remote]
  /\ ReadReturns(w, remote)
  /\ UNCHANGED <<remote, pushedTip, advertised, commits, acked, faults>>

(* A remote call of a read fails: the Commit fails with it, except that a  *)
(* failed re-check leaves the push's own error, which fails it as well.    *)
ReadFails(w) ==
  /\ pc[w] \in Advertising \cup Fetching
  /\ faults < MaxFaults /\ faults' = faults + 1
  /\ pc' = [pc EXCEPT ![w] = "idle"]
  /\ UNCHANGED <<remote, local>>

(* Write begins: appending to the tip this process pushed last needs no    *)
(* read first.                                                             *)
Write(w) ==
  /\ pc[w] = "write"
  /\ pc' = [pc EXCEPT ![w] =
              IF expected[w] # NoTip /\ expected[w] = pushedTip[w]
              THEN "push" ELSE "prewrite"]
  /\ UNCHANGED <<remote, local, faults>>

MutantOwnParent(w) == Append(pushedTip[w], w)

NewTip(w) == Append(expected[w], w)

MutantBareForce(w) == TRUE

(* git push --force-with-lease=ref:expected                                *)
LeaseHolds(w) == remote = expected[w]

Pushed(w) == remote' = NewTip(w)

Push(w) ==
  /\ pc[w] = "push" /\ LeaseHolds(w)
  /\ Pushed(w)
  /\ knownTip' = [knownTip EXCEPT ![w] = NewTip(w)]
  /\ pushedTip' = [pushedTip EXCEPT ![w] = NewTip(w)]
  /\ acked' = acked \cup {NewTip(w)}
  /\ pc' = [pc EXCEPT ![w] = "idle"]
  /\ UNCHANGED <<advertised, expected, attempts, commits, faults>>

PushReported(w) ==
  /\ pc' = [pc EXCEPT ![w] = "recheck"]
  /\ pushedTip' = [pushedTip EXCEPT ![w] = NoTip]
  /\ UNCHANGED <<knownTip, advertised, expected, attempts, commits, acked>>

PushRejected(w) ==
  /\ pc[w] = "push" /\ ~LeaseHolds(w)
  /\ PushReported(w)
  /\ UNCHANGED <<remote, faults>>

(* The push failed on the way, or was applied and its reply lost.          *)
PushErrors(w) ==
  /\ pc[w] = "push"
  /\ faults < MaxFaults /\ faults' = faults + 1
  /\ UNCHANGED remote \/ (LeaseHolds(w) /\ Pushed(w))
  /\ PushReported(w)

Next ==
  \E w \in Writers :
     \/ Commit(w) \/ Advertise(w) \/ Fetch(w) \/ ReadFails(w) \/ Write(w)
     \/ Push(w) \/ PushRejected(w) \/ PushErrors(w)

Fairness ==
  \A w \in Writers : WF_vars(\/ Advertise(w) \/ Fetch(w) \/ Write(w)
                             \/ Push(w) \/ PushRejected(w))

Spec == Init /\ [][Next]_vars /\ Fairness

-----------------------------------------------------------------------------
(* The reference implements the register: every push extends the value the *)
(* remote has at that moment, whatever the caches and the lost replies.    *)
Register == INSTANCE LedgerRegister WITH history <- remote
RegisterSpec == Register!Spec

(* A push reported successful stays on the chain for good.                 *)
AckedIsKept == \A tip \in acked : IsPrefix(tip, remote)

(* A cached tip is never ahead of, or aside from, the remote chain, so an   *)
(* advertisement equal to it needs no fetch.                                *)
CachesOnChain ==
  \A w \in Writers : IsPrefix(knownTip[w], remote) /\ IsPrefix(pushedTip[w], remote)

(* Every Commit that starts returns.                                       *)
CommitsReturn == \A w \in Writers : pc[w] # "idle" ~> pc[w] = "idle"
=============================================================================
