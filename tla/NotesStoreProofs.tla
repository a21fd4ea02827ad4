-------------------------- MODULE NotesStoreProofs --------------------------
(***************************************************************************)
(* Proofs about NotesStore, for any set of processes and any bounds.       *)
(***************************************************************************)
EXTENDS NotesStore, SequenceTheorems, TLAPS

-----------------------------------------------------------------------------
(* Prefixes. *)

(* A chain is a prefix of itself.                                           *)
LEMMA PrefixRefl ==
  ASSUME NEW S, NEW s \in Seq(S)
  PROVE  IsPrefix(s, s)
BY DEF IsPrefix

(* What is a prefix of a chain is a prefix of the chain one update longer.  *)
LEMMA PrefixAppend ==
  ASSUME NEW S, NEW s \in Seq(S), NEW t \in Seq(S), NEW x \in S, IsPrefix(s, t)
  PROVE  IsPrefix(s, Append(t, x))
BY DEF IsPrefix

(* The empty chain is a prefix of every chain.                              *)
LEMMA PrefixEmpty ==
  ASSUME NEW S, NEW t \in Seq(S)
  PROVE  IsPrefix(<< >>, t)
BY DEF IsPrefix

-----------------------------------------------------------------------------
(* Type correctness. *)

(* The absent reference is a tip.                                           *)
LEMMA NoTipTyped == NoTip \in Tips
BY EmptySeq DEF NoTip, Tips

(* A process writes a tip: its parent is the tip it read.                   *)
LEMMA NewTipTyped ==
  ASSUME TypeOK, NEW w \in Writers
  PROVE  NewTip(w) \in Tips
BY AppendProperties DEF TypeOK, NewTip, Tips

(* The types hold initially.                                                *)
LEMMA TypeInit == Init => TypeOK
BY NoTipTyped DEF Init, TypeOK, Stages

(* What a read returns, from the remote or a cache, is a tip.               *)
LEMMA ReadTyped ==
  ASSUME TypeOK, NEW w \in Writers, NEW tip \in Tips, ReadReturns(w, tip)
  PROVE  /\ pc' \in [Writers -> Stages]
         /\ attempts' \in [Writers -> Nat]
         /\ expected' \in [Writers -> Tips]
BY DEF TypeOK, ReadReturns, AfterConflict, Stages, Advertising

(* Every step of every process keeps the types.                             *)
LEMMA TypeStep == TypeOK /\ [Next]_vars => TypeOK'
<1> SUFFICES ASSUME TypeOK, [Next]_vars PROVE TypeOK'
  OBVIOUS
<1>1. CASE UNCHANGED vars
  BY <1>1 DEF TypeOK, vars
<1>2. ASSUME NEW w \in Writers, Commit(w) PROVE TypeOK'
  BY <1>2 DEF TypeOK, Commit, Stages, Advertising
<1>3. ASSUME NEW w \in Writers, Advertise(w) PROVE TypeOK'
  <2>1. advertised' \in [Writers -> Tips]
    BY <1>3 DEF TypeOK, Advertise
  <2>2. CASE remote \in {NoTip, knownTip[w]}
    BY <1>3, <2>1, <2>2, ReadTyped DEF TypeOK, Advertise
  <2>3. CASE remote \notin {NoTip, knownTip[w]}
    <3>1. pc[w] \in Advertising /\ pc' = [pc EXCEPT ![w] = FetchFor[pc[w]]]
      BY <1>3, <2>3 DEF Advertise
    <3>2. FetchFor[pc[w]] \in Stages
      BY <3>1 DEF FetchFor, Stages, Fetching
    <3> QED
      BY <1>3, <2>1, <2>3, <3>1, <3>2 DEF TypeOK, Advertise
  <2> QED BY <2>2, <2>3
<1>4. ASSUME NEW w \in Writers, Fetch(w) PROVE TypeOK'
  BY <1>4, ReadTyped DEF TypeOK, Fetch
<1>5. ASSUME NEW w \in Writers, ReadFails(w) PROVE TypeOK'
  BY <1>5 DEF TypeOK, ReadFails, local, Stages
<1>6. ASSUME NEW w \in Writers, Write(w) PROVE TypeOK'
  BY <1>6 DEF TypeOK, Write, local, Stages, Advertising
<1>7. ASSUME NEW w \in Writers, Push(w) PROVE TypeOK'
  BY <1>7, NewTipTyped DEF TypeOK, Push, Pushed, Stages
<1>8. ASSUME NEW w \in Writers, PushRejected(w) PROVE TypeOK'
  BY <1>8, NoTipTyped DEF TypeOK, PushRejected, PushReported, Stages, Advertising
<1>9. ASSUME NEW w \in Writers, PushErrors(w) PROVE TypeOK'
  BY <1>9, NoTipTyped, NewTipTyped
     DEF TypeOK, PushErrors, Pushed, PushReported, Stages, Advertising
<1> QED
  BY <1>1, <1>2, <1>3, <1>4, <1>5, <1>6, <1>7, <1>8, <1>9 DEF Next

(* Every variable keeps its type, for any number of processes.             *)
THEOREM TypeCorrect == Spec => []TypeOK
BY TypeInit, TypeStep, PTL DEF Spec

-----------------------------------------------------------------------------
(* Refinement. *)

(* How the remote tip can change at all: one update appended to the tip     *)
(* the update was computed from, which is the tip at that moment.           *)
LEMMA RemoteStep ==
  ASSUME [Next]_vars
  PROVE  \/ UNCHANGED remote
         \/ \E w \in Writers : remote' = Append(remote, w)
<1>1. CASE UNCHANGED vars
  BY <1>1 DEF vars
<1>2. ASSUME NEW w \in Writers, Push(w) \/ PushErrors(w)
      PROVE  remote' = Append(remote, w) \/ UNCHANGED remote
  BY <1>2 DEF Push, PushErrors, LeaseHolds, Pushed, NewTip
<1>3. ASSUME NEW w \in Writers,
             \/ Commit(w) \/ Advertise(w) \/ Fetch(w) \/ ReadFails(w)
             \/ Write(w) \/ PushRejected(w)
      PROVE  UNCHANGED remote
  BY <1>3 DEF Commit, Advertise, Fetch, ReadFails, Write, PushRejected
<1> QED
  BY <1>1, <1>2, <1>3 DEF Next

(* The notes reference implements the append-only register: no update is    *)
(* overwritten and none is applied to a value that is no longer current,    *)
(* whatever the tip caches, rejected pushes and lost replies.               *)
THEOREM Implements == Spec => RegisterSpec
<1>1. Init => Register!Init
  BY DEF Init, NoTip, Register!Init
<1>2. [Next]_vars => [Register!Next]_remote
  BY RemoteStep DEF Register!Next, Register!Apply
<1> QED
  BY <1>1, <1>2, PTL DEF Spec, RegisterSpec, Register!Spec

-----------------------------------------------------------------------------
(* Caches and acknowledgements. *)

(* Everything a process remembers or was told lies on the remote chain.     *)
OnChain == CachesOnChain /\ AckedIsKept

(* A chain only grows by the commits pushed onto its head.                  *)
LEMMA ChainGrows ==
  ASSUME TypeOK, [Next]_vars, NEW tip \in Tips, IsPrefix(tip, remote)
  PROVE  IsPrefix(tip, remote')
BY RemoteStep, PrefixAppend DEF TypeOK, Tips

(* Every step keeps what was read on the chain of the remote.               *)
LEMMA OnChainStep == TypeOK /\ TypeOK' /\ OnChain /\ [Next]_vars => OnChain'
<1> SUFFICES ASSUME TypeOK, TypeOK', OnChain, [Next]_vars PROVE OnChain'
  OBVIOUS
<1>1. \A w \in Writers : IsPrefix(knownTip[w], remote') /\ IsPrefix(pushedTip[w], remote')
  BY ChainGrows DEF TypeOK, OnChain, CachesOnChain
<1>2. \A tip \in acked : IsPrefix(tip, remote')
  BY ChainGrows DEF TypeOK, OnChain, AckedIsKept
<1>3. IsPrefix(remote', remote') /\ IsPrefix(NoTip, remote')
  BY PrefixRefl, PrefixEmpty DEF TypeOK, Tips, NoTip
<1>4. CASE UNCHANGED <<knownTip, pushedTip, acked>>
  BY <1>1, <1>2, <1>4 DEF OnChain, CachesOnChain, AckedIsKept
<1>5. ASSUME NEW w \in Writers, Fetch(w) PROVE OnChain'
  BY <1>1, <1>2, <1>3, <1>5 DEF Fetch, TypeOK, OnChain, CachesOnChain, AckedIsKept
<1>6. ASSUME NEW w \in Writers, Push(w) PROVE OnChain'
  BY <1>1, <1>2, <1>3, <1>6
     DEF Push, Pushed, TypeOK, OnChain, CachesOnChain, AckedIsKept
<1>7. ASSUME NEW w \in Writers, PushReported(w) PROVE OnChain'
  BY <1>1, <1>2, <1>3, <1>7
     DEF PushReported, TypeOK, OnChain, CachesOnChain, AckedIsKept
<1>8. ASSUME NEW w \in Writers,
             Commit(w) \/ Advertise(w) \/ ReadFails(w) \/ Write(w)
      PROVE  UNCHANGED <<knownTip, pushedTip, acked>>
  BY <1>8 DEF Commit, Advertise, ReadFails, Write, local
<1> QED
  BY <1>4, <1>5, <1>6, <1>7, <1>8 DEF Next, vars, PushRejected, PushErrors

(* Hence it is there in every reachable state.                              *)
LEMMA OnChainAlways == Spec => []OnChain
<1>1. Init => OnChain
  <2>1. IsPrefix(NoTip, NoTip)
    BY NoTipTyped, PrefixRefl DEF Tips
  <2> QED
    BY <2>1 DEF Init, OnChain, CachesOnChain, AckedIsKept
<1> QED
  BY <1>1, OnChainStep, TypeCorrect, PTL DEF Spec

(* A cached tip is always on the remote chain, so an advertisement equal to *)
(* it can be answered from the local object store.                          *)
THEOREM CachesCorrect == Spec => []CachesOnChain
BY OnChainAlways, PTL DEF OnChain

(* A push that was reported successful is never overwritten.                *)
THEOREM AcknowledgedKept == Spec => []AckedIsKept
BY OnChainAlways, PTL DEF OnChain
=============================================================================
