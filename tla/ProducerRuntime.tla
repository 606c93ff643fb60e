-------------------------- MODULE ProducerRuntime --------------------------
(***************************************************************************)
(* The process-wide side of native/tracelite_runtime.c: attaching to a     *)
(* region, claiming a registry slot, the thread-local track id and its     *)
(* generation, writing an event, ending a track and unmapping.  A thread   *)
(* is either inside the SQLite shim (ensure_attached, then tlt_begin or    *)
(* tlt_end) or runs a Dart TraceRecorder (lib/src/producer.dart), which    *)
(* keeps its track id in a field and passes it to every call.              *)
(*                                                                         *)
(* Every read or write of a global, of the registry or of the mapping that *)
(* another thread can interleave with is a step.  Touching the mapping     *)
(* when it is gone is a fault, which ends the process.                     *)
(*                                                                         *)
(* tlt_reset_runtime is called at quiescent boundaries only                *)
(* (native/tracelite_runtime.h:139-145); after one the harness points the  *)
(* process at the next sample's region.  A TraceRecorder survives it, and  *)
(* so do the thread-local ids of the other threads, which may call in at   *)
(* any time; the generation tells only the latter from current ones.       *)
(***************************************************************************)
EXTENDS Integers, FiniteSets

CONSTANTS
  Threads,        (* OS threads of the process                             *)
  MaxProducers,   (* registry slots of a region                            *)
  Usages,         (* how a process uses the runtime, see usage             *)
  MaxGeneration,  (* bound: the runtime generation stays <= MaxGeneration[_] *)
  LastRegion      (* bound: a usage goes through regions 1..LastRegion[_]  *)

ASSUME RuntimeAssumption ==
  /\ MaxProducers \in Nat
  /\ MaxGeneration \in [Usages -> Nat]
  /\ Usages \subseteq {"resets", "detaches", "moves"}
  /\ LastRegion \in [Usages -> Nat \ {0}]

Regions == UNION {1..LastRegion[u] : u \in Usages}
Tracks == 0..MaxProducers-1
NoRegion == 0
NoTrack == -1

VARIABLES
  (* "resets": tracks are ended by resets only.  "detaches": recorders and *)
  (* threads end their tracks.  "moves": resets only, and the Dart VM runs *)
  (* an isolate, and so its recorder, on one thread after another.         *)
  usage,
  (* Globals of the process.                                               *)
  active,         (* tlt_active                                            *)
  region,         (* g_region and the pointers set with it                 *)
  mapped,         (* whether those pointers still point at a mapping       *)
  generation,     (* g_runtime_generation                                  *)
  faulted,        (* a thread touched memory that is not mapped            *)
  target,         (* the region TRACELITE_REGION or the harness names      *)
  (* The registry of every region file.                                    *)
  state,
  (* Thread-local variables, and a thread's place in the call it makes.    *)
  my_track,       (* tlt_my_track_id                                       *)
  my_generation,  (* tlt_my_generation                                     *)
  pc,
  caller,         (* who called: the shim, a recorder, tlt_detach          *)
  track,          (* the slot index or track id the call works on          *)
  recorder,       (* trackId of the TraceRecorder the thread uses          *)
  (* History.                                                              *)
  recorder_region,(* the region that id was claimed in                     *)
  origin,         (* the region the track id of the call was obtained in   *)
  owner,          (* the thread whose CAS claimed a slot                   *)
  written,        (* which thread stored an event in which ring            *)
  hit             (* slots ended by a call with an id of another region    *)

globals == <<active, region, mapped, generation>>
locals  == <<my_track, my_generation>>
recorders == <<recorder, recorder_region>>
history == <<origin, owner, written, hit>>
vars == <<usage, globals, faulted, target, state, locals, pc, caller, track,
          recorders, history>>

Init ==
  /\ usage \in Usages
  /\ active = FALSE
  /\ region = NoRegion
  /\ mapped = FALSE
  /\ generation = 1
  /\ faulted = FALSE
  /\ target = 1
  /\ state = [r \in Regions |-> [k \in Tracks |-> "empty"]]
  /\ my_track = [t \in Threads |-> NoTrack]
  /\ my_generation = [t \in Threads |-> 0]
  /\ pc = [t \in Threads |-> "idle"]
  /\ caller = [t \in Threads |-> "none"]
  /\ track = [t \in Threads |-> NoTrack]
  /\ recorder = [t \in Threads |-> NoTrack]
  /\ recorder_region = [t \in Threads |-> NoRegion]
  /\ origin = [t \in Threads |-> NoRegion]
  /\ owner = [r \in Regions |-> [k \in Tracks |-> "none"]]
  /\ written = {}
  /\ hit = {}

Goto(t, label) == pc' = [pc EXCEPT ![t] = label]

(* Mutant: the generation is not compared.                                 *)
CurrentTrackAnyGeneration(t) == my_track[t]

(* tlt_current_track_id                                                    *)
CurrentTrack(t) ==
  IF my_generation[t] = generation THEN my_track[t] ELSE NoTrack

Enter(t, who, label) ==
  /\ pc[t] = "idle"
  /\ ~faulted
  /\ caller' = [caller EXCEPT ![t] = who]
  /\ Goto(t, label)

(* The next step of t reads or writes the registry, the pool or a ring.    *)
Touches(t, label) == pc[t] = label /\ ~faulted /\ region # NoRegion /\ mapped

Step(t, label) == pc[t] = label /\ ~faulted

-----------------------------------------------------------------------------
(* tlt_attach.                                                             *)

Attaching ==
  {u \in Threads : pc[u] \in {"attach_map", "attach_bump", "attach_on"}}

ShimCall(t) ==
  /\ Enter(t, "shim", IF active /\ CurrentTrack(t) # NoTrack THEN "lookup"
                      ELSE IF active THEN "register" ELSE "attach")
  /\ UNCHANGED <<usage, globals, faulted, target, state, locals, track,
                 recorders, history>>

(* A thread may attach another recorder at any time and then uses that.    *)
RecorderAttach(t) ==
  /\ Enter(t, "recorder", "attach")
  /\ UNCHANGED <<usage, globals, faulted, target, state, locals, track,
                 recorders, history>>

(* No region, or a file that is not one: -1.  A recorder is then disabled; *)
(* ensure_attached looks at tlt_active again.                              *)
AttachFails(t) ==
  /\ Step(t, "attach")
  /\ ~active
  /\ Goto(t, IF caller[t] = "shim" THEN "register" ELSE "idle")
  /\ UNCHANGED <<usage, globals, faulted, target, state, locals, caller,
                 track, recorders, history>>

AttachCheck(t) ==
  /\ Step(t, "attach")
  /\ ~active => generation + Cardinality(Attaching) < MaxGeneration[usage]
  /\ Goto(t, IF active THEN "register" ELSE "attach_map")
  /\ UNCHANGED <<usage, globals, faulted, target, state, locals, caller,
                 track, recorders, history>>

AttachMap(t) ==
  /\ Step(t, "attach_map")
  /\ region' = target
  /\ mapped' = TRUE
  /\ Goto(t, "attach_bump")
  /\ UNCHANGED <<usage, active, generation, faulted, target, state, locals,
                 caller, track, recorders, history>>

AttachBump(t) ==
  /\ Step(t, "attach_bump")
  /\ generation' = generation + 1
  /\ Goto(t, "attach_on")
  /\ UNCHANGED <<usage, active, region, mapped, faulted, target, state,
                 locals, caller, track, recorders, history>>

AttachOn(t) ==
  /\ Step(t, "attach_on")
  /\ active' = TRUE
  /\ Goto(t, "register")
  /\ UNCHANGED <<usage, region, mapped, generation, faulted, target, state,
                 locals, caller, track, recorders, history>>

-----------------------------------------------------------------------------
(* tlt_register_producer.                                                  *)

AfterRegister(t) == IF caller[t] = "shim" THEN "lookup" ELSE "idle"

RegisterCheck(t) ==
  /\ Step(t, "register")
  /\ track' = [track EXCEPT ![t] = 0]
  /\ Goto(t, IF active THEN "claim" ELSE AfterRegister(t))
  /\ UNCHANGED <<usage, globals, faulted, target, state, locals, caller,
                 recorders, history>>

(* Mutant: the scan also takes a slot that has ended.                      *)
ClaimEnded(t) ==
  /\ Touches(t, "claim")
  /\ track[t] \in Tracks
  /\ IF state[region][track[t]] \in {"empty", "ended"}
     THEN /\ state' = [state EXCEPT ![region][track[t]] = "claiming"]
          /\ owner' = [owner EXCEPT ![region][track[t]] = t]
          /\ Goto(t, "intern")
          /\ UNCHANGED track
     ELSE /\ track' = [track EXCEPT ![t] = @ + 1]
          /\ UNCHANGED <<state, owner, pc>>
  /\ UNCHANGED <<usage, globals, faulted, target, locals, caller, recorders,
                 origin, written, hit>>

(* One CAS of the scan: the slot is won, or the next one is tried.         *)
Claim(t) ==
  /\ Touches(t, "claim")
  /\ track[t] \in Tracks
  /\ IF state[region][track[t]] = "empty"
     THEN /\ state' = [state EXCEPT ![region][track[t]] = "claiming"]
          /\ owner' = [owner EXCEPT ![region][track[t]] = t]
          /\ Goto(t, "intern")
          /\ UNCHANGED track
     ELSE /\ track' = [track EXCEPT ![t] = @ + 1]
          /\ UNCHANGED <<state, owner, pc>>
  /\ UNCHANGED <<usage, globals, faulted, target, locals, caller, recorders,
                 origin, written, hit>>

(* Mutant: a scan that finds no slot goes on with its loop counter.        *)
ClaimPastEnd(t) ==
  /\ Step(t, "claim")
  /\ track[t] \notin Tracks
  /\ Goto(t, "intern")
  /\ UNCHANGED <<usage, globals, faulted, target, state, locals, caller,
                 track, recorders, history>>

ClaimFails(t) ==
  /\ Step(t, "claim")
  /\ track[t] \notin Tracks
  /\ Goto(t, AfterRegister(t))
  /\ UNCHANGED <<usage, globals, faulted, target, state, locals, caller,
                 track, recorders, history>>

(* The names are interned and the slot's metadata is written.              *)
InternNames(t) ==
  /\ Touches(t, "intern")
  /\ Goto(t, "publish")
  /\ UNCHANGED <<usage, globals, faulted, target, state, locals, caller,
                 track, recorders, history>>

Publish(t) ==
  /\ Touches(t, "publish")
  /\ state' = [state EXCEPT ![region][track[t]] = "registered"]
  /\ Goto(t, "adopt")
  /\ UNCHANGED <<usage, globals, faulted, target, locals, caller, track,
                 recorders, history>>

(* The thread-local id; a recorder also keeps the id that is returned.     *)
Adopt(t) ==
  /\ Touches(t, "adopt")
  /\ my_track' = [my_track EXCEPT ![t] = track[t]]
  /\ my_generation' = [my_generation EXCEPT ![t] = generation]
  /\ IF caller[t] = "recorder"
     THEN /\ recorder' = [recorder EXCEPT ![t] = track[t]]
          /\ recorder_region' = [recorder_region EXCEPT ![t] = region]
     ELSE UNCHANGED recorders
  /\ Goto(t, AfterRegister(t))
  /\ UNCHANGED <<usage, globals, faulted, target, state, caller, track,
                 history>>

(* Between two turns of its event loop the isolate goes on on thread u.    *)
IsolateMoves(t, u) ==
  /\ usage = "moves"
  /\ pc[t] = "idle" /\ pc[u] = "idle"
  /\ ~faulted
  /\ recorder[t] # NoTrack /\ recorder[u] = NoTrack
  /\ recorder' = [recorder EXCEPT ![t] = NoTrack, ![u] = recorder[t]]
  /\ recorder_region' =
       [recorder_region EXCEPT ![t] = NoRegion, ![u] = recorder_region[t]]
  /\ UNCHANGED <<usage, globals, faulted, target, state, locals, pc, caller,
                 track, history>>

-----------------------------------------------------------------------------
(* write_event.                                                            *)

(* A thread-local id is looked up for the region that is attached; while   *)
(* none is, an id left over from before the last reset still answers.      *)
LookedUpIn == IF active THEN region ELSE NoRegion

(* tlt_end of the shim call, or any other tlt_* call on the thread's track *)
RecordHere(t) ==
  /\ Enter(t, "producer", "lookup")
  /\ UNCHANGED <<usage, globals, faulted, target, state, locals, track,
                 recorders, history>>

RecordOnTrack(t) ==
  /\ recorder[t] # NoTrack
  /\ Enter(t, "producer", "check")
  /\ track' = [track EXCEPT ![t] = recorder[t]]
  /\ origin' = [origin EXCEPT ![t] = recorder_region[t]]
  /\ UNCHANGED <<usage, globals, faulted, target, state, locals, recorders,
                 owner, written, hit>>

Lookup(t) ==
  /\ Step(t, "lookup")
  /\ track' = [track EXCEPT ![t] = CurrentTrack(t)]
  /\ origin' = [origin EXCEPT ![t] = LookedUpIn]
  /\ Goto(t, IF CurrentTrack(t) = NoTrack THEN "idle" ELSE "check")
  /\ UNCHANGED <<usage, globals, faulted, target, state, locals, caller,
                 recorders, owner, written, hit>>

(* if (!tlt_active || !valid_track_id(track_id)) return;                   *)
CheckActive(t) ==
  /\ Step(t, "check")
  /\ Goto(t, IF active /\ region # NoRegion THEN "check_state" ELSE "idle")
  /\ UNCHANGED <<usage, globals, faulted, target, state, locals, caller,
                 track, recorders, history>>

CheckState(t) ==
  /\ Touches(t, "check_state")
  /\ Goto(t, IF state[region][track[t]] \in {"registered", "ended"}
             THEN "append" ELSE "idle")
  /\ UNCHANGED <<usage, globals, faulted, target, state, locals, caller,
                 track, recorders, history>>

(* The ring protocol proper is module TraceRing.                           *)
AppendEvent(t) ==
  /\ Touches(t, "append")
  /\ written' = written \cup {[region |-> region, track |-> track[t], by |-> t,
                              stale |-> origin[t] # region]}
  /\ Goto(t, "idle")
  /\ UNCHANGED <<usage, globals, faulted, target, state, locals, caller,
                 track, recorders, origin, owner, hit>>

-----------------------------------------------------------------------------
(* tlt_detach, tlt_detach_track and reset_mapping_state.                   *)

(* TraceRecorder.detach leaves the recorder as it is.                      *)
RecorderDetach(t) ==
  /\ usage = "detaches"
  /\ recorder[t] # NoTrack
  /\ Enter(t, "recorder", "detach")
  /\ track' = [track EXCEPT ![t] = recorder[t]]
  /\ origin' = [origin EXCEPT ![t] = recorder_region[t]]
  /\ UNCHANGED <<usage, globals, faulted, target, state, locals, recorders,
                 owner, written, hit>>

(* tlt_detach, on the thread's own track                                   *)
ThreadDetach(t) ==
  /\ usage = "detaches"
  /\ Enter(t, "detach", IF CurrentTrack(t) = NoTrack THEN "forget" ELSE "detach")
  /\ track' = [track EXCEPT ![t] = CurrentTrack(t)]
  /\ origin' = [origin EXCEPT ![t] = LookedUpIn]
  /\ UNCHANGED <<usage, globals, faulted, target, state, locals, recorders,
                 owner, written, hit>>

AfterDetach(t) == IF caller[t] = "detach" THEN "forget" ELSE "idle"

DetachCheck(t) ==
  /\ Step(t, "detach")
  /\ Goto(t, IF active /\ region # NoRegion THEN "end_track" ELSE AfterDetach(t))
  /\ UNCHANGED <<usage, globals, faulted, target, state, locals, caller,
                 track, recorders, history>>

EndTrack(t) ==
  /\ Touches(t, "end_track")
  /\ state' = [state EXCEPT ![region][track[t]] = "ended"]
  /\ hit' = IF origin[t] = region THEN hit ELSE hit \cup {<<region, track[t]>>}
  /\ track' = [track EXCEPT ![t] = 0]
  /\ Goto(t, "scan")
  /\ UNCHANGED <<usage, globals, faulted, target, locals, caller, recorders,
                 origin, owner, written>>

(* has_active_tracks reads one slot after the other.                       *)
ScanSlot(t) ==
  /\ Touches(t, "scan")
  /\ track[t] \in Tracks
  /\ IF state[region][track[t]] \in {"claiming", "registered"}
     THEN Goto(t, AfterDetach(t)) /\ UNCHANGED track
     ELSE track' = [track EXCEPT ![t] = @ + 1] /\ UNCHANGED pc
  /\ UNCHANGED <<usage, globals, faulted, target, state, locals, caller,
                 recorders, history>>

ScanDone(t) ==
  /\ Step(t, "scan")
  /\ track[t] \notin Tracks
  /\ Goto(t, "unmap")
  /\ UNCHANGED <<usage, globals, faulted, target, state, locals, caller,
                 track, recorders, history>>

Unmap(t) ==
  /\ Step(t, "unmap")
  /\ mapped' = FALSE
  /\ Goto(t, "clear")
  /\ UNCHANGED <<usage, active, region, generation, faulted, target, state,
                 locals, caller, track, recorders, history>>

(* The globals and the caller's own thread-locals; tlt_active goes last.   *)
Forget(t) ==
  /\ my_track' = [my_track EXCEPT ![t] = NoTrack]
  /\ my_generation' = [my_generation EXCEPT ![t] = 0]

Clear(t) ==
  /\ Step(t, "clear")
  /\ region' = NoRegion
  /\ active' = FALSE
  /\ Forget(t)
  /\ Goto(t, AfterDetach(t))
  /\ UNCHANGED <<usage, mapped, generation, faulted, target, state, caller,
                 track, recorders, history>>

ForgetTrack(t) ==
  /\ Step(t, "forget")
  /\ Forget(t)
  /\ Goto(t, "idle")
  /\ UNCHANGED <<usage, globals, faulted, target, state, caller, track,
                 recorders, history>>

-----------------------------------------------------------------------------
InUse(t) == {k \in Tracks : state[region][k] \in {"claiming", "registered"}}

(* Mutant: a reset leaves tlt_active set.                                  *)
ResetStaysActive(t) ==
  /\ \A u \in Threads : pc[u] = "idle"
  /\ ~faulted
  /\ active
  /\ region # NoRegion
  /\ region' = NoRegion
  /\ mapped' = FALSE
  /\ Forget(t)
  /\ UNCHANGED <<usage, active, generation, faulted, target, state, pc,
                 caller, track, recorders, history>>

(* tlt_reset_runtime: no other thread is inside the runtime, so it is one  *)
(* step.  The harness then names the next region; recorders and the other  *)
(* threads' ids stay as they are.                                          *)
Reset(t) ==
  /\ \A u \in Threads : pc[u] = "idle"
  /\ ~faulted
  /\ active
  /\ state' = [state EXCEPT ![region] =
                 [k \in Tracks |-> IF k \in InUse(t) THEN "ended" ELSE @[k]]]
  /\ region' = NoRegion
  /\ mapped' = FALSE
  /\ active' = FALSE
  /\ Forget(t)
  /\ target' = IF target < LastRegion[usage] THEN target + 1 ELSE target
  /\ UNCHANGED <<usage, generation, faulted, pc, caller, track, recorders,
                 history>>

(* Any step through a pointer that is NULL or unmapped by now.             *)
Dereferences(t) ==
  \/ pc[t] \in {"intern", "publish", "adopt", "check_state", "append",
                "end_track"}
  \/ pc[t] \in {"claim", "scan"} /\ track[t] \in Tracks

Fault(t) ==
  /\ Dereferences(t)
  /\ ~(region # NoRegion /\ mapped)
  /\ ~faulted
  /\ faulted' = TRUE
  /\ UNCHANGED <<usage, globals, target, state, locals, pc, caller, track,
                 recorders, history>>

-----------------------------------------------------------------------------
Attach(t) ==
  \/ AttachFails(t) \/ AttachCheck(t)
  \/ AttachMap(t) \/ AttachBump(t) \/ AttachOn(t)

Register(t) ==
  \/ RegisterCheck(t) \/ Claim(t) \/ ClaimFails(t)
  \/ InternNames(t) \/ Publish(t) \/ Adopt(t)

WriteEvent(t) ==
  \/ Lookup(t) \/ CheckActive(t) \/ CheckState(t) \/ AppendEvent(t)

DetachTrack(t) ==
  \/ DetachCheck(t) \/ EndTrack(t) \/ ScanSlot(t) \/ ScanDone(t)
  \/ Unmap(t) \/ Clear(t) \/ ForgetTrack(t)

Next ==
  \E t \in Threads :
    \/ ShimCall(t) \/ RecorderAttach(t) \/ RecordHere(t) \/ RecordOnTrack(t)
    \/ RecorderDetach(t) \/ ThreadDetach(t)
    \/ Attach(t) \/ Register(t) \/ WriteEvent(t) \/ DetachTrack(t)
    \/ Reset(t)
    \/ \E u \in Threads : IsolateMoves(t, u)
    \/ Fault(t)

Spec == Init /\ [][Next]_vars

-----------------------------------------------------------------------------
(* Properties.                                                             *)

Places ==
  {"idle", "attach", "attach_map", "attach_bump", "attach_on",
   "register", "claim", "intern", "publish", "adopt",
   "lookup", "check", "check_state", "append",
   "detach", "end_track", "scan", "unmap", "clear", "forget"}

(* Every variable has the shape the code gives it.                         *)
TypeOK ==
  /\ usage \in Usages
  /\ active \in BOOLEAN
  /\ region \in Regions \cup {NoRegion}
  /\ mapped \in BOOLEAN
  /\ generation \in Nat \ {0}
  /\ faulted \in BOOLEAN
  /\ target \in Regions
  /\ state \in [Regions ->
        [Tracks -> {"empty", "claiming", "registered", "ended"}]]
  /\ my_track \in [Threads -> Tracks \cup {NoTrack}]
  /\ my_generation \in [Threads -> Nat]
  /\ pc \in [Threads -> Places]
  /\ caller \in [Threads -> {"none", "shim", "recorder", "producer", "detach"}]
  /\ track \in [Threads -> -1..MaxProducers]
  /\ recorder \in [Threads -> Tracks \cup {NoTrack}]
  /\ recorder_region \in [Threads -> Regions \cup {NoRegion}]
  /\ origin \in [Threads -> Regions \cup {NoRegion}]
  /\ owner \in [Regions -> [Tracks -> Threads \cup {"none"}]]
  /\ written \subseteq
       [region : Regions, track : Tracks, by : Threads, stale : BOOLEAN]
  /\ hit \subseteq Regions \X Tracks

(* As long as isolates stay on their threads, an event reaches a ring of   *)
(* another thread in one way only: through an id of an earlier region, held *)
(* by a recorder kept over a reset or looked up while no region was        *)
(* attached.  A thread-local id looked up while one is attached never does, *)
(* however attaches and resets race: the generation                        *)
(* (doc/runtime-protocol.md:690-706) screens out those of earlier regions. *)
EventsByOwner ==
  usage # "moves" =>
    \A e \in written : ~e.stale => owner[e.region][e.track] = e.by

(* At no time do two threads hold the same track id of the mapped region,  *)
(* thread-locally or in a recorder that was attached to it, even when both *)
(* attached it at once: the single-producer condition of the ring protocol. *)
Holds(t, k) ==
  CurrentTrack(t) = k \/ (recorder[t] = k /\ recorder_region[t] = region)

OneProducerPerTrack ==
  usage # "moves" /\ active =>
    \A t, u \in Threads : \A k \in Tracks :
      Holds(t, k) /\ Holds(u, k) => t = u

(* No two threads store into a ring at the same time                       *)
(* (native/tracelite_runtime.c:15 "Each producer owns a private ring       *)
(* buffer (SPSC: producer is sole writer of head + data").                 *)
SoleWriter ==
  \A t, u \in Threads :
    pc[t] = "append" /\ pc[u] = "append" /\ track[t] = track[u] => t = u

(* When nothing but a reset ends tracks, no call touches the mapping after *)
(* it is gone.                                                             *)
NoFault == usage # "detaches" => ~faulted

(* A slot walks empty, claiming, registered, ended and never back          *)
(* (doc/runtime-protocol.md section 3), whoever ends it and however claims *)
(* race, unless a detach with an id of an earlier region has ended it.     *)
SlotSteps ==
  {<<"empty", "claiming">>, <<"claiming", "registered">>,
   <<"registered", "ended">>}

SlotLifecycle ==
  [][\A r \in Regions : \A k \in Tracks :
       state'[r][k] # state[r][k] =>
         \/ <<state[r][k], state'[r][k]>> \in SlotSteps
         \/ <<r, k>> \in hit']_vars

-----------------------------------------------------------------------------
(* The inductive invariant behind the safety properties (module            *)
(* ProducerRuntimeProofs shows that it is inductive).                      *)

Claiming  == {"intern", "publish"}
Writing   == {"check", "check_state", "append"}
Ending    == {"detach", "end_track"}
Unmapping == {"scan", "unmap", "clear", "forget"}

(* What a thread works on at its place in a call.                          *)
PlacesOK ==
  \A t \in Threads :
    /\ pc[t] \in Claiming \cup {"adopt"} \cup Writing \cup Ending =>
         track[t] \in Tracks
    /\ pc[t] \in {"claim", "scan"} => track[t] \in 0..MaxProducers
    /\ pc[t] \in Ending \cup Unmapping => usage = "detaches"

(* Only the region that is named now is ever mapped, and later ones are    *)
(* untouched.                                                              *)
OnTarget ==
  /\ region \in {NoRegion, target}
  /\ target \in 1..LastRegion[usage]
  /\ \A r \in Regions : r > target => \A k \in Tracks : state[r][k] = "empty"

(* A slot is being claimed by the thread that won it, and by no other, and *)
(* only a detach with an old id ends it under that thread's hands.         *)
ClaimsOwned ==
  \A t \in Threads : pc[t] \in Claiming \cup {"adopt"} =>
    /\ owner[target][track[t]] = t
    /\ state[target][track[t]] # "empty"
    /\ pc[t] = "adopt" => state[target][track[t]] \in {"registered", "ended"}
    /\ pc[t] \in Claiming /\ <<target, track[t]>> \notin hit =>
         state[target][track[t]] = "claiming"

(* No slot is left behind half claimed.                                    *)
ClaimsHeld ==
  \A k \in Tracks : state[target][k] = "claiming" =>
    \E t \in Threads : pc[t] \in Claiming /\ track[t] = k

Owns(t, k) ==
  owner[target][k] = t /\ state[target][k] \in {"registered", "ended"}

(* An attach has advanced the generation since the last reset.             *)
IdsCurrent == active \/ \E t \in Threads : pc[t] = "attach_on"

(* An id of the region that is named now belongs to its holder: the one in *)
(* a recorder that claimed it there, the one a call obtained there, and,   *)
(* once an attach has advanced the generation, the thread-local one.       *)
TracksOwned ==
  usage # "moves" =>
    \A t \in Threads :
      /\ recorder[t] # NoTrack /\ recorder_region[t] = target =>
           Owns(t, recorder[t])
      /\ IdsCurrent /\ CurrentTrack(t) # NoTrack => Owns(t, CurrentTrack(t))
      /\ pc[t] \in Writing \cup Ending /\ origin[t] = target =>
           Owns(t, track[t])

(* Generations and regions that threads remember are not ahead.            *)
GenerationsPast ==
  \A t \in Threads :
    /\ my_generation[t] <= generation
    /\ origin[t] <= target
    /\ recorder_region[t] <= target
    /\ recorder[t] # NoTrack => recorder_region[t] # NoRegion

(* What a thread that is past its check of tlt_active relies on.           *)
MappingKept ==
  usage # "detaches" =>
    /\ ~faulted
    /\ active \/ (\E t \in Threads :
         pc[t] \in Claiming \cup {"attach_bump", "attach_on", "claim", "adopt",
                                 "check_state", "append"}) =>
         mapped /\ region # NoRegion

EventsOwned ==
  usage # "moves" =>
    \A e \in written : ~e.stale =>
      /\ state[e.region][e.track] # "empty"
      /\ owner[e.region][e.track] = e.by

RuntimeInv ==
  /\ TypeOK
  /\ PlacesOK
  /\ OnTarget
  /\ ClaimsOwned
  /\ ClaimsHeld
  /\ TracksOwned
  /\ GenerationsPast
  /\ MappingKept
  /\ EventsOwned
=============================================================================
