----------------------- MODULE ProducerRuntimeProofs -----------------------
(***************************************************************************)
(* Proofs about ProducerRuntime: RuntimeInv is inductive, so the safety    *)
(* properties of attach, registry, generations and reset hold for any      *)
(* number of threads, slots and regions.  One lemma per step of a thread   *)
(* shows that the step keeps each part of RuntimeInv; the parts a step     *)
(* does not disturb share a leaf.                                          *)
(***************************************************************************)
EXTENDS ProducerRuntime, TLAPS

(* The region named now exists; slots are counted from zero.               *)
LEMMA Ranges ==
  ASSUME TypeOK, OnTarget
  PROVE  /\ target \in Regions
         /\ Regions \subseteq Nat \ {0}
         /\ MaxProducers \in Nat
  BY RuntimeAssumption DEF TypeOK, OnTarget, Regions

(* No slot is left half claimed when no slot becomes one and the threads   *)
(* that are claiming go on claiming.                                       *)
LEMMA ClaimsHeldKept ==
  ASSUME ClaimsHeld, target' = target,
         \A k \in Tracks :
           state'[target][k] = "claiming" => state[target][k] = "claiming",
         \A u \in Threads : pc[u] \in Claiming =>
           pc'[u] \in Claiming /\ track'[u] = track[u]
  PROVE  ClaimsHeld'
<1> SUFFICES ASSUME NEW k \in Tracks, state'[target][k] = "claiming"
             PROVE  \E u \in Threads : pc'[u] \in Claiming /\ track'[u] = k
  BY DEF ClaimsHeld, Tracks, Claiming
<1>1. PICK u \in Threads : pc[u] \in Claiming /\ track[u] = k
  BY DEF ClaimsHeld
<1> QED BY <1>1

-----------------------------------------------------------------------------
(* Entering a call and tlt_attach.                                         *)

LEMMA ShimCallKept ==
  ASSUME RuntimeInv, NEW t \in Threads, ShimCall(t)
  PROVE  RuntimeInv'
<1> USE DEF ShimCall, globals, locals, recorders, history, Goto, Enter
<1>1. TypeOK'
  BY DEF RuntimeInv, TypeOK, Places
<1>2. PlacesOK'
  BY DEF RuntimeInv, PlacesOK, Claiming, Writing, Ending, Unmapping
<1>3. ClaimsOwned'
  BY DEF RuntimeInv, ClaimsOwned, Claiming
<1>4. ClaimsHeld'
  BY ClaimsHeldKept DEF RuntimeInv, Claiming
<1>5. TracksOwned'
  BY DEF RuntimeInv, TracksOwned, Owns, IdsCurrent, CurrentTrack, Writing,
     Ending
<1>6. MappingKept'
  BY DEF RuntimeInv, MappingKept, Claiming
<1>7. OnTarget' /\ GenerationsPast' /\ EventsOwned'
  BY DEF RuntimeInv, OnTarget, GenerationsPast, EventsOwned
<1> QED BY <1>1, <1>2, <1>3, <1>4, <1>5, <1>6, <1>7 DEF RuntimeInv

LEMMA RecorderAttachKept ==
  ASSUME RuntimeInv, NEW t \in Threads, RecorderAttach(t)
  PROVE  RuntimeInv'
<1> USE DEF RecorderAttach, globals, locals, recorders, history, Goto, Enter
<1>1. TypeOK'
  BY DEF RuntimeInv, TypeOK, Places
<1>2. PlacesOK'
  BY DEF RuntimeInv, PlacesOK, Claiming, Writing, Ending, Unmapping
<1>3. ClaimsOwned'
  BY DEF RuntimeInv, ClaimsOwned, Claiming
<1>4. ClaimsHeld'
  BY ClaimsHeldKept DEF RuntimeInv, Claiming
<1>5. TracksOwned'
  BY DEF RuntimeInv, TracksOwned, Owns, IdsCurrent, CurrentTrack, Writing,
     Ending
<1>6. MappingKept'
  BY DEF RuntimeInv, MappingKept, Claiming
<1>7. OnTarget' /\ GenerationsPast' /\ EventsOwned'
  BY DEF RuntimeInv, OnTarget, GenerationsPast, EventsOwned
<1> QED BY <1>1, <1>2, <1>3, <1>4, <1>5, <1>6, <1>7 DEF RuntimeInv

LEMMA AttachFailsKept ==
  ASSUME RuntimeInv, NEW t \in Threads, AttachFails(t)
  PROVE  RuntimeInv'
<1> USE DEF AttachFails, globals, locals, recorders, history, Goto, Step
<1>1. TypeOK'
  BY DEF RuntimeInv, TypeOK, Places
<1>2. PlacesOK'
  BY DEF RuntimeInv, PlacesOK, Claiming, Writing, Ending, Unmapping
<1>3. ClaimsOwned'
  BY DEF RuntimeInv, ClaimsOwned, Claiming
<1>4. ClaimsHeld'
  BY ClaimsHeldKept DEF RuntimeInv, Claiming
<1>5. TracksOwned'
  BY DEF RuntimeInv, TracksOwned, Owns, IdsCurrent, CurrentTrack, Writing,
     Ending
<1>6. MappingKept'
  BY DEF RuntimeInv, MappingKept, Claiming
<1>7. OnTarget' /\ GenerationsPast' /\ EventsOwned'
  BY DEF RuntimeInv, OnTarget, GenerationsPast, EventsOwned
<1> QED BY <1>1, <1>2, <1>3, <1>4, <1>5, <1>6, <1>7 DEF RuntimeInv

LEMMA AttachCheckKept ==
  ASSUME RuntimeInv, NEW t \in Threads, AttachCheck(t)
  PROVE  RuntimeInv'
<1> USE DEF AttachCheck, globals, locals, recorders, history, Goto, Step
<1>1. TypeOK'
  BY DEF RuntimeInv, TypeOK, Places
<1>2. PlacesOK'
  BY DEF RuntimeInv, PlacesOK, Claiming, Writing, Ending, Unmapping
<1>3. ClaimsOwned'
  BY DEF RuntimeInv, ClaimsOwned, Claiming
<1>4. ClaimsHeld'
  BY ClaimsHeldKept DEF RuntimeInv, Claiming
<1>5. TracksOwned'
  BY DEF RuntimeInv, TracksOwned, Owns, IdsCurrent, CurrentTrack, Writing,
     Ending
<1>6. MappingKept'
  BY DEF RuntimeInv, MappingKept, Claiming
<1>7. OnTarget' /\ GenerationsPast' /\ EventsOwned'
  BY DEF RuntimeInv, OnTarget, GenerationsPast, EventsOwned
<1> QED BY <1>1, <1>2, <1>3, <1>4, <1>5, <1>6, <1>7 DEF RuntimeInv

LEMMA AttachMapKept ==
  ASSUME RuntimeInv, NEW t \in Threads, AttachMap(t)
  PROVE  RuntimeInv'
<1> USE DEF AttachMap, globals, locals, recorders, history, Goto, Step
<1>0. /\ target \in Regions
      /\ Regions \subseteq Nat \ {0}
      /\ MaxProducers \in Nat
      /\ TypeOK
  BY Ranges DEF RuntimeInv
<1>1. TypeOK'
  BY DEF RuntimeInv, TypeOK, Places
<1>2. PlacesOK'
  BY DEF RuntimeInv, PlacesOK, Claiming, Writing, Ending, Unmapping
<1>3. ClaimsOwned'
  BY DEF RuntimeInv, ClaimsOwned, Claiming
<1>4. ClaimsHeld'
  BY ClaimsHeldKept DEF RuntimeInv, Claiming
<1>5. TracksOwned'
  BY DEF RuntimeInv, TracksOwned, Owns, IdsCurrent, CurrentTrack, Writing,
     Ending
<1>6. MappingKept'
  BY <1>0 DEF RuntimeInv, MappingKept, NoRegion
<1>7. OnTarget' /\ GenerationsPast' /\ EventsOwned'
  BY DEF RuntimeInv, OnTarget, GenerationsPast, EventsOwned
<1> QED BY <1>1, <1>2, <1>3, <1>4, <1>5, <1>6, <1>7 DEF RuntimeInv

LEMMA AttachBumpKept ==
  ASSUME RuntimeInv, NEW t \in Threads, AttachBump(t)
  PROVE  RuntimeInv'
<1> USE DEF AttachBump, globals, locals, recorders, history, Goto, Step
<1>1. TypeOK'
  BY DEF RuntimeInv, TypeOK, Places
<1>2. PlacesOK'
  BY DEF RuntimeInv, PlacesOK, Claiming, Writing, Ending, Unmapping
<1>3. ClaimsOwned'
  BY DEF RuntimeInv, ClaimsOwned, Claiming
<1>4. ClaimsHeld'
  BY ClaimsHeldKept DEF RuntimeInv, Claiming
<1>5. TracksOwned'
  BY DEF RuntimeInv, TypeOK, TracksOwned, Owns, IdsCurrent, CurrentTrack,
     Writing, Ending, GenerationsPast
<1>6. GenerationsPast'
  BY DEF RuntimeInv, TypeOK, GenerationsPast
<1>7. OnTarget' /\ MappingKept' /\ EventsOwned'
  BY DEF RuntimeInv, OnTarget, MappingKept, EventsOwned
<1> QED BY <1>1, <1>2, <1>3, <1>4, <1>5, <1>6, <1>7 DEF RuntimeInv

LEMMA AttachOnKept ==
  ASSUME RuntimeInv, NEW t \in Threads, AttachOn(t)
  PROVE  RuntimeInv'
<1> USE DEF AttachOn, globals, locals, recorders, history, Goto, Step
<1>0. /\ target \in Regions
      /\ Regions \subseteq Nat \ {0}
      /\ MaxProducers \in Nat
      /\ TypeOK
  BY Ranges DEF RuntimeInv
<1>1. TypeOK'
  BY DEF RuntimeInv, TypeOK, Places
<1>2. PlacesOK'
  BY DEF RuntimeInv, PlacesOK, Claiming, Writing, Ending, Unmapping
<1>3. ClaimsOwned'
  BY DEF RuntimeInv, ClaimsOwned, Claiming
<1>4. ClaimsHeld'
  BY ClaimsHeldKept DEF RuntimeInv, Claiming
<1>5. TracksOwned'
  <2>1. IdsCurrent
    BY DEF RuntimeInv, IdsCurrent
  <2> QED BY <1>0, <2>1 DEF RuntimeInv, TypeOK, TracksOwned, Owns, IdsCurrent,
     CurrentTrack, Writing, Ending
<1>6. OnTarget' /\ GenerationsPast' /\ MappingKept' /\ EventsOwned'
  BY DEF RuntimeInv, OnTarget, GenerationsPast, MappingKept, EventsOwned
<1> QED BY <1>1, <1>2, <1>3, <1>4, <1>5, <1>6 DEF RuntimeInv

-----------------------------------------------------------------------------
(* tlt_register_producer.                                                  *)

LEMMA RegisterCheckKept ==
  ASSUME RuntimeInv, NEW t \in Threads, RegisterCheck(t)
  PROVE  RuntimeInv'
<1> USE DEF RegisterCheck, globals, locals, recorders, history,
        Goto, Step, AfterRegister
<1>0. /\ target \in Regions
      /\ Regions \subseteq Nat \ {0}
      /\ MaxProducers \in Nat
      /\ TypeOK
  BY Ranges DEF RuntimeInv
<1>1. TypeOK'
  BY <1>0 DEF RuntimeInv, TypeOK, Places
<1>2. PlacesOK'
  BY <1>0 DEF RuntimeInv, TypeOK, PlacesOK, Claiming, Writing, Ending,
     Unmapping
<1>3. ClaimsOwned'
  BY DEF RuntimeInv, ClaimsOwned, Claiming
<1>4. ClaimsHeld'
  BY ClaimsHeldKept DEF RuntimeInv, Claiming
<1>5. TracksOwned'
  BY DEF RuntimeInv, TracksOwned, Owns, IdsCurrent, CurrentTrack, Writing,
     Ending
<1>6. MappingKept'
  BY DEF RuntimeInv, MappingKept, Claiming
<1>7. OnTarget' /\ GenerationsPast' /\ EventsOwned'
  BY DEF RuntimeInv, OnTarget, GenerationsPast, EventsOwned
<1> QED BY <1>1, <1>2, <1>3, <1>4, <1>5, <1>6, <1>7 DEF RuntimeInv

(* The CAS of the scan changes no slot that is not empty.                  *)
LEMMA ClaimTakesEmpty ==
  ASSUME TypeOK, NEW t \in Threads, Claim(t),
         NEW r \in Regions, NEW k \in Tracks, state[r][k] # "empty"
  PROVE  state'[r][k] = state[r][k] /\ owner'[r][k] = owner[r][k]
<1>1. /\ state \in [Regions ->
            [Tracks -> {"empty", "claiming", "registered", "ended"}]]
      /\ owner \in [Regions -> [Tracks -> Threads \cup {"none"}]]
  BY DEF TypeOK
<1>2. CASE state[region][track[t]] = "empty"
  BY <1>1, <1>2 DEF Claim
<1>3. CASE state[region][track[t]] # "empty"
  BY <1>3 DEF Claim
<1> QED BY <1>2, <1>3

LEMMA ClaimKept ==
  ASSUME RuntimeInv, NEW t \in Threads, Claim(t)
  PROVE  RuntimeInv'
<1> USE DEF Claim, globals, locals, recorders, history, Goto, Touches
<1>0. /\ target \in Regions
      /\ Regions \subseteq Nat \ {0}
      /\ MaxProducers \in Nat
      /\ TypeOK
  BY Ranges DEF RuntimeInv
<1>1. TypeOK'
  <2>1. CASE state[region][track[t]] = "empty"
    <3>1. state' \in [Regions ->
              [Tracks -> {"empty", "claiming", "registered", "ended"}]]
      BY <1>0, <2>1 DEF RuntimeInv, TypeOK, OnTarget
    <3>2. owner' \in [Regions -> [Tracks -> Threads \cup {"none"}]]
      BY <1>0, <2>1 DEF RuntimeInv, TypeOK, OnTarget
    <3> QED BY <1>0, <2>1, <3>1, <3>2 DEF RuntimeInv, TypeOK, Places
  <2>2. CASE state[region][track[t]] # "empty"
    <3>1. track' \in [Threads -> -1..MaxProducers]
      BY <1>0, <2>2 DEF TypeOK, Tracks
    <3> QED BY <1>0, <2>2, <3>1 DEF TypeOK
  <2> QED BY <2>1, <2>2
<1>2. PlacesOK'
  BY <1>0 DEF RuntimeInv, TypeOK, PlacesOK, Claiming, Writing, Ending,
     Unmapping, Tracks
<1>3. OnTarget'
  <2>1. region = target
    BY DEF RuntimeInv, OnTarget
  <2>2. \A r \in Regions : r > target => state'[r] = state[r]
    BY <1>0, <2>1 DEF RuntimeInv, TypeOK
  <2> QED BY <1>0, <2>2 DEF RuntimeInv, OnTarget
<1>4. ClaimsOwned'
  BY DEF RuntimeInv, TypeOK, OnTarget, PlacesOK, ClaimsOwned, Claiming,
     Writing
<1>5. ClaimsHeld'
  <2>1. CASE state[region][track[t]] = "empty"
    <3>1. pc'[t] \in Claiming /\ track'[t] = track[t]
      BY <1>0, <2>1 DEF RuntimeInv, TypeOK, Claiming
    <3>2. \A k \in Tracks :
            k # track[t] => state'[target][k] = state[target][k]
      BY <1>0, <2>1 DEF RuntimeInv, TypeOK, OnTarget
    <3>3. \A u \in Threads : u # t => pc'[u] = pc[u] /\ track'[u] = track[u]
      BY <1>0, <2>1 DEF RuntimeInv, TypeOK
    <3>4. pc[t] \notin Claiming
      BY DEF Claiming
    <3> SUFFICES ASSUME NEW k \in Tracks, state'[target][k] = "claiming"
                 PROVE  \E u \in Threads : pc'[u] \in Claiming /\ track'[u] = k
      BY <1>0 DEF ClaimsHeld, Claiming, Tracks
    <3>5. CASE k = track[t]
      BY <3>1, <3>5
    <3>6. CASE k # track[t]
      BY <3>2, <3>3, <3>4, <3>6 DEF RuntimeInv, ClaimsHeld
    <3> QED BY <3>5, <3>6
  <2>2. CASE ~(state[region][track[t]] = "empty")
    BY <1>0, <2>2, ClaimsHeldKept DEF RuntimeInv, TypeOK, Claiming, Tracks
  <2> QED BY <2>1, <2>2
<1>6. TracksOwned'
  <2>1. region = target
    BY DEF RuntimeInv, OnTarget
  <2>2. \A r \in Regions : \A k \in Tracks : state[r][k] # "empty" =>
          state'[r][k] = state[r][k] /\ owner'[r][k] = owner[r][k]
    BY <1>0, ClaimTakesEmpty
  <2>3. \A u \in Threads : \A k \in Tracks : Owns(u, k) => Owns(u, k)'
    BY <1>0, <2>2 DEF Owns
  <2>4. \A u \in Threads : /\ CurrentTrack(u)' = CurrentTrack(u)
                           /\ CurrentTrack(u) \in Tracks \cup {NoTrack}
    BY <1>0 DEF RuntimeInv, TypeOK, CurrentTrack
  <2>5. IdsCurrent' => IdsCurrent
    BY <1>0 DEF RuntimeInv, TypeOK, IdsCurrent
  <2>6. \A u \in Threads : pc'[u] \in Writing \cup Ending =>
          /\ pc[u] \in Writing \cup Ending
          /\ track'[u] = track[u] /\ track[u] \in Tracks
    BY <1>0 DEF RuntimeInv, TypeOK, PlacesOK, Writing, Ending
  <2>7. \A u \in Threads : recorder[u] \in Tracks \cup {NoTrack}
    BY DEF RuntimeInv, TypeOK
  <2> QED BY <2>3, <2>4, <2>5, <2>6, <2>7 DEF RuntimeInv, TracksOwned,
     Writing, Ending
<1>7. EventsOwned'
  <2>1. region = target
    BY DEF RuntimeInv, OnTarget
  <2>2. \A r \in Regions : \A k \in Tracks : state[r][k] # "empty" =>
          state'[r][k] = state[r][k] /\ owner'[r][k] = owner[r][k]
    BY <1>0, <2>1, ClaimTakesEmpty
  <2>3. \A e \in written : e.region \in Regions /\ e.track \in Tracks
    BY DEF RuntimeInv, TypeOK
  <2> QED BY <2>2, <2>3 DEF RuntimeInv, EventsOwned
<1>8. GenerationsPast' /\ MappingKept'
  BY DEF RuntimeInv, GenerationsPast, MappingKept
<1> QED BY <1>1, <1>2, <1>3, <1>4, <1>5, <1>6, <1>7, <1>8 DEF RuntimeInv

LEMMA ClaimFailsKept ==
  ASSUME RuntimeInv, NEW t \in Threads, ClaimFails(t)
  PROVE  RuntimeInv'
<1> USE DEF ClaimFails, globals, locals, recorders, history,
        Goto, Step, AfterRegister
<1>1. TypeOK'
  BY DEF RuntimeInv, TypeOK, Places
<1>2. PlacesOK'
  BY DEF RuntimeInv, PlacesOK, Claiming, Writing, Ending, Unmapping
<1>3. ClaimsOwned'
  BY DEF RuntimeInv, ClaimsOwned, Claiming
<1>4. ClaimsHeld'
  BY ClaimsHeldKept DEF RuntimeInv, Claiming
<1>5. TracksOwned'
  BY DEF RuntimeInv, TracksOwned, Owns, IdsCurrent, CurrentTrack, Writing,
     Ending
<1>6. OnTarget' /\ GenerationsPast' /\ MappingKept' /\ EventsOwned'
  BY DEF RuntimeInv, OnTarget, GenerationsPast, MappingKept, EventsOwned
<1> QED BY <1>1, <1>2, <1>3, <1>4, <1>5, <1>6 DEF RuntimeInv

LEMMA InternNamesKept ==
  ASSUME RuntimeInv, NEW t \in Threads, InternNames(t)
  PROVE  RuntimeInv'
<1> USE DEF InternNames, globals, locals, recorders, history, Goto, Touches
<1>1. TypeOK'
  BY DEF RuntimeInv, TypeOK, Places
<1>2. PlacesOK'
  BY DEF RuntimeInv, PlacesOK, Claiming, Ending, Unmapping
<1>3. ClaimsOwned'
  BY DEF RuntimeInv, ClaimsOwned, Claiming
<1>4. ClaimsHeld'
  BY ClaimsHeldKept DEF RuntimeInv, Claiming
<1>5. TracksOwned'
  BY DEF RuntimeInv, TracksOwned, Owns, IdsCurrent, CurrentTrack, Writing,
     Ending
<1>6. OnTarget' /\ GenerationsPast' /\ MappingKept' /\ EventsOwned'
  BY DEF RuntimeInv, OnTarget, GenerationsPast, MappingKept, EventsOwned
<1> QED BY <1>1, <1>2, <1>3, <1>4, <1>5, <1>6 DEF RuntimeInv

LEMMA PublishKept ==
  ASSUME RuntimeInv, NEW t \in Threads, Publish(t)
  PROVE  RuntimeInv'
<1> USE DEF Publish, globals, locals, recorders, history, Goto, Touches
<1>0. /\ target \in Regions
      /\ Regions \subseteq Nat \ {0}
      /\ MaxProducers \in Nat
      /\ TypeOK
  BY Ranges DEF RuntimeInv
<1>1. TypeOK'
  BY <1>0 DEF RuntimeInv, TypeOK, Places, Tracks, NoTrack, NoRegion,
     CurrentTrack, PlacesOK, OnTarget
<1>2. PlacesOK'
  BY DEF RuntimeInv, PlacesOK, Claiming, Ending, Unmapping
<1>3. ClaimsOwned'
  BY DEF RuntimeInv, TypeOK, OnTarget, PlacesOK, ClaimsOwned, Claiming
<1>4. ClaimsHeld'
  <2>1. /\ region = target /\ track[t] \in Tracks
    BY DEF RuntimeInv, OnTarget, PlacesOK, Claiming
  <2>2. \A k \in Tracks : state'[target][k] = "claiming" =>
          k # track[t] /\ state[target][k] = "claiming"
    BY <1>0, <2>1 DEF TypeOK
  <2>3. \A u \in Threads : u # t => pc'[u] = pc[u] /\ track'[u] = track[u]
    BY <1>0 DEF TypeOK
  <2> SUFFICES ASSUME NEW k \in Tracks, state'[target][k] = "claiming"
               PROVE  \E u \in Threads : pc'[u] \in Claiming /\ track'[u] = k
    BY <1>0 DEF ClaimsHeld, Claiming, Tracks
  <2>4. PICK u \in Threads : pc[u] \in Claiming /\ track[u] = k
    BY <2>2 DEF RuntimeInv, ClaimsHeld
  <2>5. u # t
    BY <2>2, <2>4
  <2> QED BY <2>3, <2>4, <2>5
<1>5. TracksOwned'
  <2>1. region = target /\ track[t] \in Tracks
    BY DEF RuntimeInv, OnTarget, PlacesOK, Claiming
  <2>2. \A u \in Threads : \A k \in Tracks : Owns(u, k) => Owns(u, k)'
    BY <1>0, <2>1 DEF TypeOK, Owns
  <2>3. \A u \in Threads : /\ CurrentTrack(u)' = CurrentTrack(u)
                           /\ CurrentTrack(u) \in Tracks \cup {NoTrack}
                           /\ recorder[u] \in Tracks \cup {NoTrack}
    BY <1>0 DEF TypeOK, CurrentTrack
  <2>4. IdsCurrent' => IdsCurrent
    BY <1>0 DEF TypeOK, IdsCurrent
  <2>5. \A u \in Threads : pc'[u] \in Writing \cup Ending =>
          pc[u] \in Writing \cup Ending /\ track[u] \in Tracks
    BY <1>0 DEF RuntimeInv, TypeOK, PlacesOK, Writing, Ending
  <2> QED BY <2>2, <2>3, <2>4, <2>5 DEF RuntimeInv, TracksOwned
<1>6. OnTarget' /\ GenerationsPast' /\ MappingKept' /\ EventsOwned'
  BY DEF RuntimeInv, OnTarget, GenerationsPast, MappingKept, EventsOwned
<1> QED BY <1>1, <1>2, <1>3, <1>4, <1>5, <1>6 DEF RuntimeInv

LEMMA AdoptKept ==
  ASSUME RuntimeInv, NEW t \in Threads, Adopt(t)
  PROVE  RuntimeInv'
<1> USE DEF Adopt, globals, locals, recorders, history,
        Goto, Touches, AfterRegister
<1>0. /\ target \in Regions
      /\ Regions \subseteq Nat \ {0}
      /\ TypeOK
  BY Ranges DEF RuntimeInv
<1>1. TypeOK'
  BY DEF RuntimeInv, TypeOK, Places, PlacesOK
<1>2. PlacesOK'
  BY DEF RuntimeInv, PlacesOK, Ending, Unmapping
<1>3. ClaimsOwned'
  BY DEF RuntimeInv, ClaimsOwned, Claiming
<1>4. ClaimsHeld'
  BY ClaimsHeldKept DEF RuntimeInv, Claiming
<1>5. TracksOwned'
  <2>1. Owns(t, track[t])
    BY DEF RuntimeInv, ClaimsOwned, Owns
  <2>2. IdsCurrent' => IdsCurrent
    BY <1>0 DEF TypeOK, IdsCurrent
  <2>3. \A u \in Threads :
          \/ CurrentTrack(u)' = CurrentTrack(u)
          \/ u = t /\ CurrentTrack(u)' = track[t]
    BY <1>0 DEF TypeOK, CurrentTrack
  <2>4. \A u \in Threads :
          \/ /\ recorder'[u] = recorder[u]
             /\ recorder_region'[u] = recorder_region[u]
          \/ u = t /\ recorder'[u] = track[t]
    BY <1>0 DEF TypeOK
  <2>5. \A u \in Threads : pc'[u] \in Writing \cup Ending =>
          pc[u] \in Writing \cup Ending
    BY <1>0 DEF TypeOK, Writing, Ending
  <2>6. \A u, k : Owns(u, k)' = Owns(u, k)
    BY DEF Owns
  <2> QED BY <2>1, <2>2, <2>3, <2>4, <2>5, <2>6 DEF RuntimeInv, TracksOwned
<1>6. GenerationsPast'
  BY <1>0 DEF RuntimeInv, TypeOK, OnTarget, GenerationsPast, NoRegion
<1>7. OnTarget' /\ MappingKept' /\ EventsOwned'
  BY DEF RuntimeInv, OnTarget, MappingKept, EventsOwned
<1> QED BY <1>1, <1>2, <1>3, <1>4, <1>5, <1>6, <1>7 DEF RuntimeInv

-----------------------------------------------------------------------------
(* write_event.                                                            *)

LEMMA RecordHereKept ==
  ASSUME RuntimeInv, NEW t \in Threads, RecordHere(t)
  PROVE  RuntimeInv'
<1> USE DEF RecordHere, globals, locals, recorders, history, Goto, Enter
<1>1. TypeOK'
  BY DEF RuntimeInv, TypeOK, Places
<1>2. PlacesOK'
  BY DEF RuntimeInv, PlacesOK, Claiming, Writing, Ending, Unmapping
<1>3. ClaimsOwned'
  BY DEF RuntimeInv, ClaimsOwned, Claiming
<1>4. ClaimsHeld'
  BY ClaimsHeldKept DEF RuntimeInv, Claiming
<1>5. TracksOwned'
  BY DEF RuntimeInv, TracksOwned, Owns, IdsCurrent, CurrentTrack, Writing,
     Ending
<1>6. MappingKept'
  BY DEF RuntimeInv, MappingKept, Claiming
<1>7. OnTarget' /\ GenerationsPast' /\ EventsOwned'
  BY DEF RuntimeInv, OnTarget, GenerationsPast, EventsOwned
<1> QED BY <1>1, <1>2, <1>3, <1>4, <1>5, <1>6, <1>7 DEF RuntimeInv

LEMMA RecordOnTrackKept ==
  ASSUME RuntimeInv, NEW t \in Threads, RecordOnTrack(t)
  PROVE  RuntimeInv'
<1> USE DEF RecordOnTrack, globals, locals, recorders, history, Goto, Enter
<1>0. /\ target \in Regions
      /\ Regions \subseteq Nat \ {0}
      /\ MaxProducers \in Nat
      /\ TypeOK
  BY Ranges DEF RuntimeInv
<1>1. TypeOK'
  BY <1>0 DEF RuntimeInv, TypeOK, Places, Tracks
<1>2. PlacesOK'
  BY DEF RuntimeInv, TypeOK, PlacesOK, Ending, Unmapping
<1>3. ClaimsOwned'
  BY DEF RuntimeInv, ClaimsOwned, Claiming
<1>4. ClaimsHeld'
  BY ClaimsHeldKept DEF RuntimeInv, Claiming
<1>5. TracksOwned'
  BY DEF RuntimeInv, TypeOK, TracksOwned, Owns, IdsCurrent, CurrentTrack
<1>6. MappingKept'
  BY DEF RuntimeInv, MappingKept, Claiming
<1>7. OnTarget' /\ GenerationsPast' /\ EventsOwned'
  BY DEF RuntimeInv, OnTarget, GenerationsPast, EventsOwned
<1> QED BY <1>1, <1>2, <1>3, <1>4, <1>5, <1>6, <1>7 DEF RuntimeInv

LEMMA LookupKept ==
  ASSUME RuntimeInv, NEW t \in Threads, Lookup(t)
  PROVE  RuntimeInv'
<1> USE DEF Lookup, globals, locals, recorders, history, Goto, Step
<1>0. /\ target \in Regions
      /\ Regions \subseteq Nat \ {0}
      /\ MaxProducers \in Nat
      /\ TypeOK
  BY Ranges DEF RuntimeInv
<1>1. TypeOK'
  <2>1. origin' \in [Threads -> Regions \cup {NoRegion}]
    BY <1>0 DEF TypeOK, LookedUpIn
  <2>2. track' \in [Threads -> -1..MaxProducers]
    BY <1>0 DEF TypeOK, Tracks, NoTrack, CurrentTrack
  <2> QED BY <1>0, <2>1, <2>2 DEF TypeOK, Places
<1>2. PlacesOK'
  BY DEF RuntimeInv, TypeOK, PlacesOK, Claiming, Writing, Ending, Unmapping,
     CurrentTrack
<1>3. ClaimsOwned'
  BY DEF RuntimeInv, ClaimsOwned, Claiming
<1>4. ClaimsHeld'
  BY ClaimsHeldKept DEF RuntimeInv, Claiming
<1>5. TracksOwned'
  <2>1. \A u \in Threads : u # t =>
          /\ pc'[u] = pc[u] /\ track'[u] = track[u]
          /\ origin'[u] = origin[u]
    BY <1>0 DEF TypeOK
  <2>2. pc'[t] \in Writing \cup Ending /\ origin'[t] = target =>
          /\ IdsCurrent /\ CurrentTrack(t) # NoTrack
          /\ track'[t] = CurrentTrack(t)
    BY <1>0 DEF TypeOK, IdsCurrent, LookedUpIn, NoRegion, Writing, Ending
  <2>3. IdsCurrent' => IdsCurrent
    BY <1>0 DEF TypeOK, IdsCurrent
  <2>4. \A u, k : Owns(u, k)' = Owns(u, k)
    BY DEF Owns
  <2>5. \A u : CurrentTrack(u)' = CurrentTrack(u)
    BY DEF CurrentTrack
  <2> QED BY <2>1, <2>2, <2>3, <2>4, <2>5 DEF RuntimeInv, TracksOwned
<1>6. MappingKept'
  BY DEF RuntimeInv, MappingKept, Claiming
<1>7. OnTarget' /\ GenerationsPast' /\ EventsOwned'
  BY <1>0 DEF RuntimeInv, TypeOK, OnTarget, GenerationsPast, EventsOwned,
     LookedUpIn, NoRegion
<1> QED BY <1>1, <1>2, <1>3, <1>4, <1>5, <1>6, <1>7 DEF RuntimeInv

LEMMA CheckActiveKept ==
  ASSUME RuntimeInv, NEW t \in Threads, CheckActive(t)
  PROVE  RuntimeInv'
<1> USE DEF CheckActive, globals, locals, recorders, history, Goto, Step
<1>1. TypeOK'
  BY DEF RuntimeInv, TypeOK, Places
<1>2. PlacesOK'
  BY DEF RuntimeInv, PlacesOK, Writing, Ending, Unmapping
<1>3. ClaimsOwned'
  BY DEF RuntimeInv, ClaimsOwned, Claiming
<1>4. ClaimsHeld'
  BY ClaimsHeldKept DEF RuntimeInv, Claiming
<1>5. TracksOwned'
  BY DEF RuntimeInv, TracksOwned, Owns, IdsCurrent, CurrentTrack, Writing
<1>6. MappingKept'
  BY DEF RuntimeInv, MappingKept, Claiming
<1>7. OnTarget' /\ GenerationsPast' /\ EventsOwned'
  BY DEF RuntimeInv, OnTarget, GenerationsPast, EventsOwned
<1> QED BY <1>1, <1>2, <1>3, <1>4, <1>5, <1>6, <1>7 DEF RuntimeInv

LEMMA CheckStateKept ==
  ASSUME RuntimeInv, NEW t \in Threads, CheckState(t)
  PROVE  RuntimeInv'
<1> USE DEF CheckState, globals, locals, recorders, history, Goto, Touches
<1>1. TypeOK'
  BY DEF RuntimeInv, TypeOK, Places
<1>2. PlacesOK'
  BY DEF RuntimeInv, PlacesOK, Writing, Ending, Unmapping
<1>3. ClaimsOwned'
  BY DEF RuntimeInv, ClaimsOwned, Claiming
<1>4. ClaimsHeld'
  BY ClaimsHeldKept DEF RuntimeInv, Claiming
<1>5. TracksOwned'
  BY DEF RuntimeInv, TracksOwned, Owns, IdsCurrent, CurrentTrack, Writing
<1>6. OnTarget' /\ GenerationsPast' /\ MappingKept' /\ EventsOwned'
  BY DEF RuntimeInv, OnTarget, GenerationsPast, MappingKept, EventsOwned
<1> QED BY <1>1, <1>2, <1>3, <1>4, <1>5, <1>6 DEF RuntimeInv

LEMMA AppendEventKept ==
  ASSUME RuntimeInv, NEW t \in Threads, AppendEvent(t)
  PROVE  RuntimeInv'
<1> USE DEF AppendEvent, globals, locals, recorders, history, Goto, Touches
<1>0. /\ target \in Regions
      /\ Regions \subseteq Nat \ {0}
      /\ MaxProducers \in Nat
      /\ TypeOK
  BY Ranges DEF RuntimeInv
<1>1. TypeOK'
  <2>1. region \in Regions /\ track[t] \in Tracks
    BY DEF RuntimeInv, TypeOK, PlacesOK, Writing
  <2>2. written' \subseteq
          [region : Regions, track : Tracks, by : Threads, stale : BOOLEAN]
    <3> DEFINE stale == origin[t] # region
    <3>1. stale \in BOOLEAN
      OBVIOUS
    <3>2. written' = written \cup {[region |-> region, track |-> track[t],
                                    by |-> t, stale |-> stale]}
      OBVIOUS
    <3> HIDE DEF stale
    <3> QED BY <1>0, <2>1, <3>1, <3>2 DEF TypeOK
  <2> QED BY <1>0, <2>2 DEF RuntimeInv, TypeOK, Places
<1>2. PlacesOK'
  BY DEF RuntimeInv, PlacesOK, Writing, Ending, Unmapping
<1>3. ClaimsOwned'
  BY DEF RuntimeInv, ClaimsOwned, Claiming
<1>4. ClaimsHeld'
  BY ClaimsHeldKept DEF RuntimeInv, Claiming
<1>5. TracksOwned'
  BY DEF RuntimeInv, TracksOwned, Owns, IdsCurrent, CurrentTrack, Writing
<1>6. EventsOwned'
  <2> SUFFICES ASSUME usage # "moves" PROVE EventsOwned'
    BY DEF EventsOwned
  <2>1. region = target /\ (origin[t] = region => Owns(t, track[t]))
    BY DEF RuntimeInv, OnTarget, TracksOwned, Writing
  <2>2. \A e \in written' : e \in written \/
          /\ e.region = target /\ e.track = track[t] /\ e.by = t
          /\ e.stale = (origin[t] # region)
    BY <2>1
  <2> QED BY <2>1, <2>2 DEF RuntimeInv, EventsOwned, Owns
<1>7. OnTarget' /\ GenerationsPast' /\ MappingKept'
  BY DEF RuntimeInv, OnTarget, GenerationsPast, MappingKept
<1> QED BY <1>1, <1>2, <1>3, <1>4, <1>5, <1>6, <1>7 DEF RuntimeInv

-----------------------------------------------------------------------------
(* tlt_detach, tlt_detach_track and reset_mapping_state.                   *)

LEMMA RecorderDetachKept ==
  ASSUME RuntimeInv, NEW t \in Threads, RecorderDetach(t)
  PROVE  RuntimeInv'
<1> USE DEF RecorderDetach, globals, locals, recorders, history, Goto, Enter
<1>0. /\ target \in Regions
      /\ Regions \subseteq Nat \ {0}
      /\ MaxProducers \in Nat
      /\ TypeOK
  BY Ranges DEF RuntimeInv
<1>1. TypeOK'
  BY <1>0 DEF RuntimeInv, TypeOK, Places, Tracks
<1>2. PlacesOK'
  BY DEF RuntimeInv, TypeOK, PlacesOK
<1>3. ClaimsOwned'
  BY DEF RuntimeInv, ClaimsOwned, Claiming
<1>4. ClaimsHeld'
  BY ClaimsHeldKept DEF RuntimeInv, Claiming
<1>5. TracksOwned'
  BY DEF RuntimeInv, TypeOK, TracksOwned, Owns, IdsCurrent, CurrentTrack
<1>6. OnTarget' /\ GenerationsPast' /\ MappingKept' /\ EventsOwned'
  BY DEF RuntimeInv, OnTarget, GenerationsPast, MappingKept, EventsOwned
<1> QED BY <1>1, <1>2, <1>3, <1>4, <1>5, <1>6 DEF RuntimeInv

LEMMA ThreadDetachKept ==
  ASSUME RuntimeInv, NEW t \in Threads, ThreadDetach(t)
  PROVE  RuntimeInv'
<1> USE DEF ThreadDetach, globals, locals, recorders, history, Goto, Enter
<1>0. /\ target \in Regions
      /\ Regions \subseteq Nat \ {0}
      /\ MaxProducers \in Nat
      /\ TypeOK
  BY Ranges DEF RuntimeInv
<1>1. TypeOK'
  <2>1. origin' \in [Threads -> Regions \cup {NoRegion}]
    BY <1>0 DEF TypeOK, LookedUpIn
  <2>2. track' \in [Threads -> -1..MaxProducers]
    BY <1>0 DEF TypeOK, Tracks, NoTrack, CurrentTrack
  <2> QED BY <1>0, <2>1, <2>2 DEF TypeOK, Places
<1>2. PlacesOK'
  BY DEF RuntimeInv, TypeOK, PlacesOK, Claiming, Writing, Ending,
     CurrentTrack
<1>3. ClaimsOwned'
  BY DEF RuntimeInv, ClaimsOwned, Claiming
<1>4. ClaimsHeld'
  BY ClaimsHeldKept DEF RuntimeInv, Claiming
<1>5. TracksOwned'
  <2>1. \A u \in Threads : u # t =>
          /\ pc'[u] = pc[u] /\ track'[u] = track[u]
          /\ origin'[u] = origin[u]
    BY <1>0 DEF TypeOK
  <2>2. pc'[t] \in Writing \cup Ending /\ origin'[t] = target =>
          /\ IdsCurrent /\ CurrentTrack(t) # NoTrack
          /\ track'[t] = CurrentTrack(t)
    BY <1>0 DEF TypeOK, IdsCurrent, LookedUpIn, NoRegion, Writing, Ending
  <2>3. IdsCurrent' => IdsCurrent
    BY <1>0 DEF TypeOK, IdsCurrent
  <2>4. \A u, k : Owns(u, k)' = Owns(u, k)
    BY DEF Owns
  <2>5. \A u : CurrentTrack(u)' = CurrentTrack(u)
    BY DEF CurrentTrack
  <2> QED BY <2>1, <2>2, <2>3, <2>4, <2>5 DEF RuntimeInv, TracksOwned
<1>6. OnTarget' /\ GenerationsPast' /\ MappingKept' /\ EventsOwned'
  BY <1>0 DEF RuntimeInv, TypeOK, OnTarget, GenerationsPast, MappingKept,
     EventsOwned, LookedUpIn, NoRegion
<1> QED BY <1>1, <1>2, <1>3, <1>4, <1>5, <1>6 DEF RuntimeInv

LEMMA DetachCheckKept ==
  ASSUME RuntimeInv, NEW t \in Threads, DetachCheck(t)
  PROVE  RuntimeInv'
<1> USE DEF DetachCheck, globals, locals, recorders, history,
        Goto, Step, AfterDetach
<1>1. TypeOK'
  BY DEF RuntimeInv, TypeOK, Places
<1>2. PlacesOK'
  BY DEF RuntimeInv, PlacesOK, Ending
<1>3. ClaimsOwned'
  BY DEF RuntimeInv, ClaimsOwned, Claiming
<1>4. ClaimsHeld'
  BY ClaimsHeldKept DEF RuntimeInv, Claiming
<1>5. TracksOwned'
  BY DEF RuntimeInv, TracksOwned, Owns, IdsCurrent, CurrentTrack, Ending
<1>6. MappingKept'
  BY DEF RuntimeInv, MappingKept, Claiming
<1>7. OnTarget' /\ GenerationsPast' /\ EventsOwned'
  BY DEF RuntimeInv, OnTarget, GenerationsPast, EventsOwned
<1> QED BY <1>1, <1>2, <1>3, <1>4, <1>5, <1>6, <1>7 DEF RuntimeInv

LEMMA EndTrackKept ==
  ASSUME RuntimeInv, NEW t \in Threads, EndTrack(t)
  PROVE  RuntimeInv'
<1> USE DEF EndTrack, globals, locals, recorders, history, Goto, Touches
<1>0. /\ target \in Regions
      /\ Regions \subseteq Nat \ {0}
      /\ MaxProducers \in Nat
      /\ TypeOK
  BY Ranges DEF RuntimeInv
<1>1. TypeOK'
  <2>1. state' \in [Regions ->
              [Tracks -> {"empty", "claiming", "registered", "ended"}]]
    BY <1>0 DEF RuntimeInv, TypeOK, Tracks, OnTarget, NoRegion
  <2>2. track' \in [Threads -> -1..MaxProducers] /\ pc' \in [Threads -> Places]
    BY <1>0 DEF RuntimeInv, TypeOK, Tracks, Places
  <2> QED BY <1>0, <2>1, <2>2 DEF RuntimeInv, TypeOK
<1>2. PlacesOK'
  BY <1>0 DEF RuntimeInv, TypeOK, PlacesOK, Claiming, Writing, Ending
<1>3. ClaimsOwned'
  BY DEF RuntimeInv, PlacesOK, ClaimsOwned, Claiming, Ending, TracksOwned,
     Owns
<1>4. ClaimsHeld'
  BY ClaimsHeldKept DEF RuntimeInv, Claiming
<1>5. TracksOwned'
  BY DEF RuntimeInv, TypeOK, TracksOwned, Owns, IdsCurrent, CurrentTrack,
     Writing, Ending
<1>6. OnTarget' /\ GenerationsPast' /\ MappingKept' /\ EventsOwned'
  BY DEF RuntimeInv, OnTarget, GenerationsPast, MappingKept, EventsOwned
<1> QED BY <1>1, <1>2, <1>3, <1>4, <1>5, <1>6 DEF RuntimeInv

LEMMA ScanSlotKept ==
  ASSUME RuntimeInv, NEW t \in Threads, ScanSlot(t)
  PROVE  RuntimeInv'
<1> USE DEF ScanSlot, globals, locals, recorders, history,
        Goto, Touches, AfterDetach
<1>0. /\ target \in Regions
      /\ Regions \subseteq Nat \ {0}
      /\ MaxProducers \in Nat
      /\ TypeOK
  BY Ranges DEF RuntimeInv
<1>1. TypeOK'
  <2>1. track' \in [Threads -> -1..MaxProducers]
    <3>1. track \in [Threads -> -1..MaxProducers]
      BY <1>0 DEF TypeOK
    <3>2. CASE UNCHANGED track
      BY <3>1, <3>2
    <3>3. CASE track' = [track EXCEPT ![t] = @ + 1]
      <4>1. track[t] + 1 \in -1..MaxProducers
        BY <1>0, <3>1 DEF Tracks
      <4> QED BY <3>1, <3>3, <4>1
    <3> QED BY <3>2, <3>3
  <2>2. pc' \in [Threads -> Places]
    BY <1>0 DEF RuntimeInv, TypeOK, Places
  <2> QED BY <1>0, <2>1, <2>2 DEF RuntimeInv, TypeOK
<1>2. PlacesOK'
  BY <1>0 DEF RuntimeInv, TypeOK, PlacesOK, Claiming, Writing, Ending,
     Unmapping, Tracks
<1>3. ClaimsOwned'
  <2>1. \A u \in Threads : pc'[u] \in Claiming \cup {"adopt"} =>
          u # t /\ pc'[u] = pc[u] /\ track'[u] = track[u]
    BY <1>0 DEF TypeOK, Claiming
  <2> QED BY <1>0, <2>1 DEF RuntimeInv, ClaimsOwned, Claiming
<1>4. ClaimsHeld'
  BY ClaimsHeldKept DEF RuntimeInv, TypeOK, Claiming
<1>5. TracksOwned'
  BY DEF RuntimeInv, TypeOK, TracksOwned, Owns, IdsCurrent, CurrentTrack,
     Writing, Ending, GenerationsPast, NoTrack
<1>6. OnTarget' /\ GenerationsPast' /\ MappingKept' /\ EventsOwned'
  BY DEF RuntimeInv, OnTarget, GenerationsPast, MappingKept, EventsOwned
<1> QED BY <1>1, <1>2, <1>3, <1>4, <1>5, <1>6 DEF RuntimeInv

LEMMA ScanDoneKept ==
  ASSUME RuntimeInv, NEW t \in Threads, ScanDone(t)
  PROVE  RuntimeInv'
<1> USE DEF ScanDone, globals, locals, recorders, history, Goto, Step
<1>1. TypeOK'
  BY DEF RuntimeInv, TypeOK, Places
<1>2. PlacesOK'
  BY DEF RuntimeInv, PlacesOK, Claiming, Writing, Ending, Unmapping
<1>3. ClaimsOwned'
  BY DEF RuntimeInv, ClaimsOwned, Claiming
<1>4. ClaimsHeld'
  BY ClaimsHeldKept DEF RuntimeInv, Claiming
<1>5. TracksOwned'
  BY DEF RuntimeInv, TracksOwned, Owns, IdsCurrent, CurrentTrack, Writing,
     Ending
<1>6. MappingKept'
  BY DEF RuntimeInv, MappingKept, Claiming
<1>7. OnTarget' /\ GenerationsPast' /\ EventsOwned'
  BY DEF RuntimeInv, OnTarget, GenerationsPast, EventsOwned
<1> QED BY <1>1, <1>2, <1>3, <1>4, <1>5, <1>6, <1>7 DEF RuntimeInv

LEMMA UnmapKept ==
  ASSUME RuntimeInv, NEW t \in Threads, Unmap(t)
  PROVE  RuntimeInv'
<1> USE DEF Unmap, globals, locals, recorders, history, Goto, Step
<1>0. /\ target \in Regions
      /\ Regions \subseteq Nat \ {0}
      /\ MaxProducers \in Nat
      /\ TypeOK
  BY Ranges DEF RuntimeInv
<1>1. TypeOK'
  BY <1>0 DEF RuntimeInv, TypeOK, Places, Tracks, NoTrack, NoRegion,
     CurrentTrack, PlacesOK, OnTarget
<1>2. PlacesOK'
  BY DEF RuntimeInv, PlacesOK, Claiming, Writing, Ending, Unmapping
<1>3. ClaimsOwned'
  BY DEF RuntimeInv, ClaimsOwned, Claiming
<1>4. ClaimsHeld'
  BY ClaimsHeldKept DEF RuntimeInv, Claiming
<1>5. TracksOwned'
  BY DEF RuntimeInv, TracksOwned, Owns, IdsCurrent, CurrentTrack, Writing,
     Ending
<1>6. MappingKept'
  BY DEF RuntimeInv, MappingKept, PlacesOK, Unmapping
<1>7. OnTarget' /\ GenerationsPast' /\ EventsOwned'
  BY DEF RuntimeInv, OnTarget, GenerationsPast, EventsOwned
<1> QED BY <1>1, <1>2, <1>3, <1>4, <1>5, <1>6, <1>7 DEF RuntimeInv

LEMMA ClearKept ==
  ASSUME RuntimeInv, NEW t \in Threads, Clear(t)
  PROVE  RuntimeInv'
<1> USE DEF Clear, globals, locals, recorders, history,
        Goto, Forget, AfterDetach, Step
<1>0. /\ target \in Regions
      /\ Regions \subseteq Nat \ {0}
      /\ MaxProducers \in Nat
      /\ TypeOK
  BY Ranges DEF RuntimeInv
<1>1. TypeOK'
  BY <1>0 DEF RuntimeInv, TypeOK, Places, Tracks, NoTrack, NoRegion,
     CurrentTrack, PlacesOK, OnTarget
<1>2. PlacesOK'
  BY DEF RuntimeInv, PlacesOK, Claiming, Writing, Ending, Unmapping
<1>3. ClaimsOwned'
  BY DEF RuntimeInv, ClaimsOwned, Claiming
<1>4. ClaimsHeld'
  BY ClaimsHeldKept DEF RuntimeInv, Claiming
<1>5. TracksOwned'
  BY DEF RuntimeInv, TypeOK, TracksOwned, Owns, IdsCurrent, CurrentTrack,
     Writing, Ending
<1>6. GenerationsPast'
  BY DEF RuntimeInv, TypeOK, GenerationsPast
<1>7. MappingKept'
  BY DEF RuntimeInv, MappingKept, PlacesOK, Unmapping
<1>8. OnTarget' /\ EventsOwned'
  BY DEF RuntimeInv, OnTarget, EventsOwned
<1> QED BY <1>1, <1>2, <1>3, <1>4, <1>5, <1>6, <1>7, <1>8 DEF RuntimeInv

LEMMA ForgetTrackKept ==
  ASSUME RuntimeInv, NEW t \in Threads, ForgetTrack(t)
  PROVE  RuntimeInv'
<1> USE DEF ForgetTrack, globals, locals, recorders, history,
        Goto, Forget, Step
<1>1. TypeOK'
  BY DEF RuntimeInv, TypeOK, Places
<1>2. PlacesOK'
  BY DEF RuntimeInv, PlacesOK, Claiming, Writing, Ending, Unmapping
<1>3. ClaimsOwned'
  BY DEF RuntimeInv, ClaimsOwned, Claiming
<1>4. ClaimsHeld'
  BY ClaimsHeldKept DEF RuntimeInv, Claiming
<1>5. TracksOwned'
  BY DEF RuntimeInv, TypeOK, TracksOwned, Owns, IdsCurrent, CurrentTrack,
     Writing, Ending
<1>6. GenerationsPast'
  BY DEF RuntimeInv, TypeOK, GenerationsPast
<1>7. MappingKept'
  BY DEF RuntimeInv, MappingKept, Claiming
<1>8. OnTarget' /\ EventsOwned'
  BY DEF RuntimeInv, OnTarget, EventsOwned
<1> QED BY <1>1, <1>2, <1>3, <1>4, <1>5, <1>6, <1>7, <1>8 DEF RuntimeInv

-----------------------------------------------------------------------------
(* tlt_reset_runtime, a fault, and an isolate that moves.                  *)

LEMMA ResetKept ==
  ASSUME RuntimeInv, NEW t \in Threads, Reset(t)
  PROVE  RuntimeInv'
<1> USE DEF Reset, globals, locals, recorders, history, Goto, InUse, Forget
<1>0. /\ target \in Regions
      /\ Regions \subseteq Nat \ {0}
      /\ MaxProducers \in Nat
      /\ TypeOK
  BY Ranges DEF RuntimeInv
<1>1. TypeOK'
  <2>1. state' \in [Regions ->
              [Tracks -> {"empty", "claiming", "registered", "ended"}]]
    <3>1. CASE region = NoRegion
      BY <1>0, <3>1 DEF TypeOK, NoRegion
    <3>2. CASE region # NoRegion
      <4> DEFINE reset ==
            [k \in Tracks |-> IF k \in InUse(t) THEN "ended"
                             ELSE state[region][k]]
      <4>1. reset \in [Tracks -> {"empty", "claiming", "registered", "ended"}]
        BY <1>0, <3>2 DEF TypeOK
      <4>2. state' = [state EXCEPT ![region] = reset]
        BY <1>0, <3>2 DEF TypeOK
      <4> QED BY <1>0, <4>1, <4>2 DEF TypeOK
    <3> QED BY <3>1, <3>2
  <2>2. target' \in Regions
    BY <1>0, RuntimeAssumption DEF RuntimeInv, TypeOK, OnTarget, Regions
  <2> QED BY <1>0, <2>1, <2>2 DEF RuntimeInv, TypeOK, NoTrack, Tracks
<1>2. OnTarget'
  <2>1. LastRegion[usage] \in Nat \ {0}
    BY <1>0, RuntimeAssumption DEF TypeOK
  <2>2. target' \in 1..LastRegion[usage] /\ target' >= target
    BY <1>0, <2>1 DEF RuntimeInv, OnTarget
  <2>3. \A r \in Regions : r > target => state'[r] = state[r]
    BY <1>0 DEF RuntimeInv, TypeOK, OnTarget, NoRegion
  <2> QED BY <1>0, <2>2, <2>3 DEF RuntimeInv, OnTarget
<1>3. ClaimsOwned'
  BY DEF RuntimeInv, ClaimsOwned, Claiming
<1>4. ClaimsHeld'
  <2>1. \A k \in Tracks : state[target][k] # "claiming"
    BY DEF RuntimeInv, ClaimsHeld, Claiming
  <2>2. \A k \in Tracks : state'[target'][k] # "claiming"
    <3>1. CASE target' = target
      <4>1. region = target => \A k \in Tracks : state'[target][k] =
              IF k \in InUse(t) THEN "ended" ELSE state[target][k]
        BY <1>0 DEF TypeOK
      <4>2. region # target => state'[target] = state[target]
        BY <1>0 DEF TypeOK
      <4> QED BY <2>1, <3>1, <4>1, <4>2
    <3>2. CASE target' # target
      <4>1. target' \in Regions /\ target' > target
        BY <1>0, <3>2, RuntimeAssumption DEF RuntimeInv, TypeOK,
           OnTarget, Regions
      <4>2. state'[target'] = state[target']
        BY <1>0, <4>1 DEF RuntimeInv, TypeOK, OnTarget, NoRegion
      <4> QED BY <4>1, <4>2 DEF RuntimeInv, OnTarget
    <3> QED BY <3>1, <3>2
  <2> QED BY <2>2 DEF ClaimsHeld
<1>5. TracksOwned'
  <2> SUFFICES ASSUME usage # "moves" PROVE TracksOwned'
    BY DEF TracksOwned
  <2>1. ~IdsCurrent' /\ \A u \in Threads : pc'[u] \notin Writing \cup Ending
    BY DEF IdsCurrent, Writing, Ending
  <2> SUFFICES ASSUME NEW u \in Threads,
                      recorder[u] # NoTrack, recorder_region[u] = target'
               PROVE  Owns(u, recorder[u])'
    BY <2>1 DEF TracksOwned
  <2>2. target' = target
    BY <1>0 DEF RuntimeInv, TypeOK, GenerationsPast
  <2>3. Owns(u, recorder[u]) /\ recorder[u] \in Tracks
    BY <1>0, <2>2 DEF RuntimeInv, TypeOK, TracksOwned
  <2>4. \/ state'[target][recorder[u]] = state[target][recorder[u]]
        \/ state'[target][recorder[u]] = "ended"
    BY <1>0, <2>3 DEF TypeOK
  <2> QED BY <2>2, <2>3, <2>4 DEF Owns
<1>6. GenerationsPast'
  <2>1. target' >= target
    BY <1>0 DEF RuntimeInv
  <2>2. \A u \in Threads : my_generation'[u] <= generation
    BY <1>0 DEF RuntimeInv, TypeOK, GenerationsPast
  <2>3. \A u \in Threads :
          origin[u] \in Nat /\ recorder_region[u] \in Nat
    <3>1. /\ origin \in [Threads -> Regions \cup {NoRegion}]
          /\ recorder_region \in [Threads -> Regions \cup {NoRegion}]
      BY <1>0 DEF TypeOK
    <3>2. Regions \cup {NoRegion} \subseteq Nat
      BY <1>0 DEF NoRegion
    <3> QED BY <3>1, <3>2
  <2>4. target \in Nat /\ target' \in Nat
    BY <1>0
  <2> QED BY <2>1, <2>2, <2>3, <2>4 DEF RuntimeInv, GenerationsPast
<1>7. MappingKept'
  BY DEF RuntimeInv, MappingKept, Claiming
<1>8. EventsOwned'
  BY DEF RuntimeInv, TypeOK, EventsOwned
<1>9. PlacesOK'
  BY DEF RuntimeInv, PlacesOK
<1> QED BY <1>1, <1>2, <1>3, <1>4, <1>5, <1>6, <1>7, <1>8, <1>9 DEF RuntimeInv

LEMMA FaultKept ==
  ASSUME RuntimeInv, NEW t \in Threads, Fault(t)
  PROVE  RuntimeInv'
<1> USE DEF Fault, globals, locals, recorders, history, Goto, Dereferences
<1>1. ClaimsHeld'
  BY ClaimsHeldKept DEF RuntimeInv
<1>2. TracksOwned'
  BY DEF RuntimeInv, TracksOwned, Owns, IdsCurrent, CurrentTrack
<1>3. MappingKept'
  BY DEF RuntimeInv, MappingKept, PlacesOK, Claiming, Ending, Unmapping
<1>4. /\ TypeOK'
      /\ PlacesOK'
      /\ OnTarget'
      /\ ClaimsOwned'
      /\ GenerationsPast'
      /\ EventsOwned'
  BY DEF RuntimeInv, TypeOK, PlacesOK, OnTarget, ClaimsOwned,
     GenerationsPast, EventsOwned
<1> QED BY <1>1, <1>2, <1>3, <1>4 DEF RuntimeInv

LEMMA IsolateMovesKept ==
  ASSUME RuntimeInv, NEW t \in Threads, NEW u \in Threads, IsolateMoves(t, u)
  PROVE  RuntimeInv'
<1> USE DEF IsolateMoves, globals, locals, recorders, history
<1>1. TypeOK'
  BY DEF RuntimeInv, TypeOK
<1>2. PlacesOK' /\ OnTarget' /\ ClaimsOwned' /\ ClaimsHeld'
  BY DEF RuntimeInv, PlacesOK, OnTarget, ClaimsOwned, ClaimsHeld
<1>3. TracksOwned' /\ GenerationsPast' /\ EventsOwned'
  BY DEF RuntimeInv, TypeOK, TracksOwned, GenerationsPast, EventsOwned,
     NoRegion, OnTarget
<1>4. MappingKept'
  BY DEF RuntimeInv, MappingKept
<1> QED BY <1>1, <1>2, <1>3, <1>4 DEF RuntimeInv

-----------------------------------------------------------------------------
(* The invariant.                                                          *)

LEMMA InitRuntimeInv == Init => RuntimeInv
<1> SUFFICES ASSUME Init PROVE RuntimeInv
  OBVIOUS
<1> USE DEF Init
<1>0. /\ LastRegion[usage] \in Nat \ {0}
      /\ Regions \subseteq Nat \ {0}
      /\ 1 \in Regions
      /\ MaxProducers \in Nat
  BY RuntimeAssumption DEF Regions
<1>1. TypeOK
  <2>1. /\ usage \in Usages /\ target \in Regions /\ generation \in Nat \ {0}
        /\ region \in Regions \cup {NoRegion}
        /\ active \in BOOLEAN /\ mapped \in BOOLEAN /\ faulted \in BOOLEAN
    BY <1>0
  <2>2. /\ state \in [Regions ->
               [Tracks -> {"empty", "claiming", "registered", "ended"}]]
        /\ owner \in [Regions -> [Tracks -> Threads \cup {"none"}]]
        /\ written \subseteq
             [region : Regions, track : Tracks, by : Threads, stale : BOOLEAN]
        /\ hit \subseteq Regions \X Tracks
    OBVIOUS
  <2>3. /\ my_track \in [Threads -> Tracks \cup {NoTrack}]
        /\ my_generation \in [Threads -> Nat]
        /\ recorder \in [Threads -> Tracks \cup {NoTrack}]
        /\ recorder_region \in [Threads -> Regions \cup {NoRegion}]
        /\ origin \in [Threads -> Regions \cup {NoRegion}]
        /\ track \in [Threads -> -1..MaxProducers]
    BY <1>0 DEF NoTrack
  <2>4. /\ pc \in [Threads -> Places]
        /\ caller \in [Threads ->
             {"none", "shim", "recorder", "producer", "detach"}]
    BY DEF Places
  <2> QED BY <2>1, <2>2, <2>3, <2>4 DEF TypeOK
<1>2. PlacesOK /\ ClaimsOwned
  BY DEF PlacesOK, ClaimsOwned, Claiming, Writing, Ending, Unmapping
<1>3. OnTarget /\ ClaimsHeld
  BY <1>0 DEF OnTarget, ClaimsHeld
<1>4. TracksOwned
  BY DEF TracksOwned, CurrentTrack, Writing, Ending
<1>5. GenerationsPast /\ MappingKept /\ EventsOwned
  BY DEF GenerationsPast, MappingKept, EventsOwned, Claiming, NoRegion
<1> QED BY <1>1, <1>2, <1>3, <1>4, <1>5 DEF RuntimeInv

LEMMA NextRuntimeInv == RuntimeInv /\ [Next]_vars => RuntimeInv'
<1> SUFFICES ASSUME RuntimeInv, [Next]_vars PROVE RuntimeInv'
  OBVIOUS
<1>1. ASSUME NEW t \in Threads, ShimCall(t) \/ RecorderAttach(t) \/ Attach(t)
      PROVE  RuntimeInv'
  BY <1>1, ShimCallKept, RecorderAttachKept, AttachFailsKept, AttachCheckKept,
     AttachMapKept, AttachBumpKept, AttachOnKept DEF Attach
<1>2. ASSUME NEW t \in Threads, Register(t) PROVE RuntimeInv'
  BY <1>2, RegisterCheckKept, ClaimKept, ClaimFailsKept, InternNamesKept,
     PublishKept, AdoptKept DEF Register
<1>3. ASSUME NEW t \in Threads,
             RecordHere(t) \/ RecordOnTrack(t) \/ WriteEvent(t)
      PROVE  RuntimeInv'
  BY <1>3, RecordHereKept, RecordOnTrackKept, LookupKept, CheckActiveKept,
     CheckStateKept, AppendEventKept DEF WriteEvent
<1>4. ASSUME NEW t \in Threads,
             RecorderDetach(t) \/ ThreadDetach(t) \/ DetachTrack(t)
      PROVE  RuntimeInv'
  BY <1>4, RecorderDetachKept, ThreadDetachKept, DetachCheckKept, EndTrackKept,
     ScanSlotKept, ScanDoneKept, UnmapKept, ClearKept, ForgetTrackKept
     DEF DetachTrack
<1>5. ASSUME NEW t \in Threads, Reset(t) \/ Fault(t) PROVE RuntimeInv'
  BY <1>5, ResetKept, FaultKept
<1>6. ASSUME NEW t \in Threads, NEW u \in Threads, IsolateMoves(t, u)
      PROVE  RuntimeInv'
  BY <1>6, IsolateMovesKept
<1>7. CASE UNCHANGED vars
  BY <1>7 DEF vars, globals, locals, recorders, history, RuntimeInv, TypeOK,
     PlacesOK, OnTarget, ClaimsOwned, ClaimsHeld, TracksOwned, Owns, IdsCurrent,
     CurrentTrack, GenerationsPast, MappingKept, EventsOwned
<1> QED BY <1>1, <1>2, <1>3, <1>4, <1>5, <1>6, <1>7 DEF Next

(* The inductive invariant of attach, registry and generations holds in    *)
(* every reachable state of native/tracelite_runtime.c's process-wide side,*)
(* for any threads, slots, regions and usage.                              *)
THEOREM RuntimeInvHolds == Spec => []RuntimeInv
<1>1. Init => RuntimeInv
  BY InitRuntimeInv
<1>2. RuntimeInv /\ [Next]_vars => RuntimeInv'
  BY NextRuntimeInv
<1> QED BY <1>1, <1>2, PTL DEF Spec

(* While isolates stay on their threads, write_event with an id that was   *)
(* claimed or looked up in the attached region stores only into the ring   *)
(* of the slot that the writing thread claimed there.                      *)
THEOREM EventsStayWithOwner == Spec => []EventsByOwner
<1>1. RuntimeInv => EventsByOwner
  BY DEF RuntimeInv, EventsOwned, EventsByOwner
<1> QED BY <1>1, RuntimeInvHolds, PTL

(* No two threads hold the same track id of the mapped region: each claims *)
(* its own slot, and thread-local ids of an earlier region have an older   *)
(* generation.  Recorders kept from an earlier region are not counted.     *)
THEOREM OneProducer == Spec => []OneProducerPerTrack
<1>1. RuntimeInv => OneProducerPerTrack
  <2> SUFFICES ASSUME RuntimeInv, usage # "moves", active,
                      NEW t \in Threads, NEW u \in Threads, NEW k \in Tracks,
                      Holds(t, k), Holds(u, k)
               PROVE  t = u
    BY DEF OneProducerPerTrack
  <2>1. k # NoTrack
    BY RuntimeAssumption DEF Tracks, NoTrack
  <2>2. \A v \in Threads : Holds(v, k) => Owns(v, k)
    BY <2>1 DEF RuntimeInv, TracksOwned, OnTarget, GenerationsPast, IdsCurrent,
       Holds
  <2>3. Owns(t, k) /\ Owns(u, k)
    BY <2>2
  <2> QED BY <2>3 DEF Owns
<1> QED BY <1>1, RuntimeInvHolds, PTL

(* When only resets end tracks, no thread touches the mapping when it is   *)
(* gone.                                                                   *)
THEOREM NoFaultHolds == Spec => []NoFault
<1>1. RuntimeInv => NoFault
  BY DEF RuntimeInv, MappingKept, NoFault
<1> QED BY <1>1, RuntimeInvHolds, PTL

-----------------------------------------------------------------------------
(* The life of a slot.                                                     *)

Walks ==
  \A r \in Regions : \A k \in Tracks :
    state'[r][k] # state[r][k] =>
      \/ <<state[r][k], state'[r][k]>> \in SlotSteps
      \/ <<r, k>> \in hit'

(* A store into one slot is a step of that slot alone.                     *)
LEMMA OneSlotStep ==
  ASSUME TypeOK, region \in Regions, NEW j \in Tracks, NEW to,
         state' = [state EXCEPT ![region][j] = to],
         \/ <<state[region][j], to>> \in SlotSteps
         \/ state[region][j] = to
         \/ <<region, j>> \in hit'
  PROVE  Walks
<1> SUFFICES ASSUME NEW r \in Regions, NEW k \in Tracks,
                    state'[r][k] # state[r][k]
             PROVE  \/ <<state[r][k], state'[r][k]>> \in SlotSteps
                    \/ <<r, k>> \in hit'
  BY DEF Walks
<1>1. r = region /\ k = j /\ state'[r][k] = to
  BY DEF TypeOK
<1> QED BY <1>1

LEMMA ClaimWalks ==
  ASSUME RuntimeInv, NEW t \in Threads, Claim(t)
  PROVE  Walks
<1>1. CASE state[region][track[t]] = "empty"
  <2>1. /\ region \in Regions /\ track[t] \in Tracks
        /\ state' = [state EXCEPT ![region][track[t]] = "claiming"]
    BY <1>1 DEF Claim, Touches, RuntimeInv, TypeOK
  <2>2. <<state[region][track[t]], "claiming">> \in SlotSteps
    BY <1>1 DEF SlotSteps
  <2> QED BY <2>1, <2>2, OneSlotStep DEF RuntimeInv
<1>2. CASE state[region][track[t]] # "empty"
  BY <1>2 DEF Claim, Walks
<1> QED BY <1>1, <1>2

(* Only the thread that won the slot publishes it; it is still claiming    *)
(* unless a detach with an old id has ended it.                            *)
LEMMA PublishWalks ==
  ASSUME RuntimeInv, NEW t \in Threads, Publish(t)
  PROVE  Walks
<1>1. region \in Regions /\ region = target /\ track[t] \in Tracks
  BY DEF Publish, Touches, RuntimeInv, TypeOK, OnTarget, PlacesOK, Claiming
<1>2. \/ <<state[region][track[t]], "registered">> \in SlotSteps
      \/ <<region, track[t]>> \in hit'
  BY <1>1 DEF Publish, Touches, history, RuntimeInv, ClaimsOwned, Claiming,
     SlotSteps
<1> QED BY <1>1, <1>2, OneSlotStep DEF Publish, RuntimeInv

(* With an id of this region a thread ends its own track only, and that    *)
(* one is registered.                                                      *)
LEMMA EndTrackWalks ==
  ASSUME RuntimeInv, NEW t \in Threads, EndTrack(t)
  PROVE  Walks
<1>1. region \in Regions /\ region = target /\ track[t] \in Tracks
  BY DEF EndTrack, Touches, RuntimeInv, TypeOK, OnTarget, PlacesOK, Ending
<1>2. CASE origin[t] # region
  <2>1. <<region, track[t]>> \in hit'
    BY <1>2 DEF EndTrack
  <2> QED BY <1>1, <2>1, OneSlotStep DEF EndTrack, RuntimeInv
<1>3. CASE origin[t] = region
  <2>1. Owns(t, track[t])
    BY <1>1, <1>3 DEF EndTrack, Touches, RuntimeInv, PlacesOK, TracksOwned,
       Ending
  <2>2. \/ <<state[region][track[t]], "ended">> \in SlotSteps
        \/ state[region][track[t]] = "ended"
    BY <1>1, <2>1 DEF Owns, SlotSteps
  <2> QED BY <1>1, <2>2, OneSlotStep DEF EndTrack, RuntimeInv
<1> QED BY <1>2, <1>3

(* When every thread is idle no slot is being claimed.                     *)
LEMMA ResetWalks ==
  ASSUME RuntimeInv, NEW t \in Threads, Reset(t)
  PROVE  Walks
<1>1. \A k \in Tracks : state[target][k] # "claiming"
  BY DEF Reset, RuntimeInv, ClaimsHeld, Claiming
<1>2. \A r \in Regions : r # region => state'[r] = state[r]
  BY DEF Reset, RuntimeInv, TypeOK
<1>3. CASE region = target
  <2>1. \A k \in Tracks : state'[region][k] # state[region][k] =>
          state[region][k] = "registered" /\ state'[region][k] = "ended"
    BY <1>1, <1>3 DEF Reset, InUse, RuntimeInv, TypeOK
  <2> QED BY <1>2, <2>1 DEF SlotSteps, Walks
<1>4. CASE region # target
  BY <1>2, <1>4, Ranges DEF RuntimeInv, OnTarget, NoRegion, Walks
<1> QED BY <1>3, <1>4

LEMMA StepWalks ==
  ASSUME RuntimeInv, [Next]_vars
  PROVE  Walks
<1>1. CASE UNCHANGED state
  BY <1>1 DEF Walks
<1>2. ASSUME NEW t \in Threads, ShimCall(t) \/ RecorderAttach(t) \/ Attach(t)
      PROVE  UNCHANGED state
  BY <1>2 DEF ShimCall, RecorderAttach, Attach, AttachFails, AttachCheck,
     AttachMap, AttachBump, AttachOn
<1>3. ASSUME NEW t \in Threads, Register(t) PROVE Walks
  <2>1. CASE Claim(t) \/ Publish(t)
    BY <2>1, ClaimWalks, PublishWalks
  <2>2. CASE RegisterCheck(t) \/ ClaimFails(t) \/ InternNames(t) \/ Adopt(t)
    BY <1>1, <2>2 DEF RegisterCheck, ClaimFails, InternNames, Adopt
  <2> QED BY <1>3, <2>1, <2>2 DEF Register
<1>4. ASSUME NEW t \in Threads,
             RecordHere(t) \/ RecordOnTrack(t) \/ WriteEvent(t)
      PROVE  UNCHANGED state
  BY <1>4 DEF RecordHere, RecordOnTrack, WriteEvent, Lookup, CheckActive,
     CheckState, AppendEvent
<1>5. ASSUME NEW t \in Threads,
             RecorderDetach(t) \/ ThreadDetach(t) \/ DetachTrack(t)
      PROVE  Walks
  <2>1. CASE EndTrack(t)
    BY <2>1, EndTrackWalks
  <2>2. CASE ~EndTrack(t)
    BY <1>1, <1>5, <2>2 DEF RecorderDetach, ThreadDetach, DetachTrack,
       DetachCheck, ScanSlot, ScanDone, Unmap, Clear, ForgetTrack
  <2> QED BY <2>1, <2>2
<1>6. ASSUME NEW t \in Threads, NEW u \in Threads,
             Fault(t) \/ IsolateMoves(t, u)
      PROVE  UNCHANGED state
  BY <1>6 DEF Fault, IsolateMoves
<1>7. CASE UNCHANGED vars
  BY <1>1, <1>7 DEF vars
<1> QED BY <1>1, <1>2, <1>3, <1>4, <1>5, <1>6, <1>7, ResetWalks DEF Next

(* A slot walks empty, claiming, registered, ended and never back, however *)
(* claims, detaches and resets of several threads interleave, unless a     *)
(* detach with an id of an earlier region has hit it.                      *)
THEOREM SlotsWalkForward == Spec => SlotLifecycle
<1>1. RuntimeInv /\ [Next]_vars =>
        [\A r \in Regions : \A k \in Tracks :
           state'[r][k] # state[r][k] =>
             \/ <<state[r][k], state'[r][k]>> \in SlotSteps
             \/ <<r, k>> \in hit']_vars
  BY StepWalks DEF Walks
<1> QED BY <1>1, RuntimeInvHolds, PTL DEF Spec, SlotLifecycle
=============================================================================
