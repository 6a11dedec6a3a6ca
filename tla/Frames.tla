------------------------------- MODULE Frames -------------------------------
(****************************************************************************)
(* Frames in flight (host/gpu/vulkan_renderer.cpp): the host records a      *)
(* frame while the GPU draws the ones before, and between two flips it      *)
(* presents blends of the last two frames by drawing the older one again.   *)
(* The queue runs its submissions in order and signals their fences.  A     *)
(* wait lets the GPU finish everything up to the fence; how much further it *)
(* is at any moment is open.  A handler that finds no frame being recorded  *)
(* begins one first: BeginFrame is a step of its own.                       *)
(****************************************************************************)
EXTENDS Integers, SequencesExt

CONSTANTS
  Textures,    \* images that can exist
  PresentSlots, \* the two present slots
  CacheLimit,  \* textures the cache holds
  Buffers,     \* the game's framebuffers
  SlotCount,   \* frames in flight
  MaxAge       \* frames begun since, beyond which a picture is just old

ASSUME FramesAssumption ==
  /\ Cardinality(PresentSlots) = 2 /\ SlotCount \in {1, 2}
  /\ {CacheLimit, MaxAge} \subseteq Nat \ {0} /\ "none" \notin Buffers

FrameRegions == 3
Regions == 0..(FrameRegions - 1)
NoRegion == FrameRegions
Slots == 0..(SlotCount - 1)
FrameFence(s) == <<"frame", s>>
PresentFence(p) == <<"present", p>>
Fences == {FrameFence(s) : s \in Slots} \cup {PresentFence(p) : p \in PresentSlots}

VARIABLES
  queue,          \* what the GPU has not finished
  unsignalled,    \* fences reset and not signalled since
  slot,
  frame,          \* the frame being recorded, NoFrame between two
  flipping,       \* write_back_frame has run, present follows
  cached,         \* textures
  retired,        \* retired_textures of each slot
  nextRegion, presentSlot,
  current, newer, older, \* recording_frame, newer_frame, older_frame
  newerValid,     \* newer_frame.valid
  cycle,          \* cycle_active
  inFlight,       \* the write-back each slot has under way
  ready,          \* writeback_ready, while writeback_has_pixels
  stored          \* the age of the picture last stored for each buffer

gpuVars == <<queue, unsignalled>>
frameVars == <<slot, frame>>
textureVars == <<cached, retired>>
ringVars == <<nextRegion, presentSlot>>
recordVars == <<current, newer, older, newerValid, cycle>>
writebackVars == <<inFlight, ready, stored>>
vars == <<gpuVars, frameVars, flipping, textureVars, ringVars, recordVars, writebackVars>>

(* A frame recorded for drawing again: the textures and regions its draws   *)
(* name, what was drawn since it began, whether any of that has been        *)
(* evicted (destroyed_texture_clock > texture_clock).  Recording is only    *)
(* ever of a valid frame by the time it is drawn again.                     *)
NoRecord == [recorded |-> FALSE, textures |-> {}, regions |-> {},
             since |-> {}, gone |-> FALSE]

(* The frame being recorded: interpolating, frame_region, and the textures  *)
(* its commands draw.                                                       *)
NoFrame == [interpolating |-> FALSE, region |-> NoRegion, drawn |-> {}]
recording == frame # NoFrame

(* A picture for guest memory: its buffer and the frames begun since. *)
NoWriteback == [age |-> MaxAge, buffer |-> "none"]
Older(age) == IF age < MaxAge THEN age + 1 ELSE MaxAge
OlderPicture(w) == [w EXCEPT !.age = Older(@)]

Init ==
  /\ queue = << >> /\ unsignalled = {}
  /\ slot = 0 /\ frame = NoFrame /\ flipping = FALSE
  /\ cached = {} /\ retired = [s \in Slots |-> {}]
  /\ nextRegion = 0 /\ presentSlot \in PresentSlots
  /\ current = NoRecord /\ newer = NoRecord /\ older = NoRecord
  /\ newerValid = FALSE /\ cycle = FALSE
  /\ inFlight = [s \in Slots |-> NoWriteback] /\ ready = NoWriteback
  /\ stored = [b \in Buffers |-> MaxAge]

-----------------------------------------------------------------------------
(* The GPU. *)

PendingFences(q) == {q[i].fence : i \in DOMAIN q}

(* What is left of q when wait_fence has returned for each of the fences. *)
Waited(q, fences) ==
  LET last == {i \in DOMAIN q : q[i].fence \in fences}
  IN SubSeq(q, (IF last = {} THEN 0 ELSE CHOOSE i \in last : \A j \in last : j <= i) + 1, Len(q))

(* The fences that have not signalled when q is left of the queue. *)
Unsignalled(q) == unsignalled \ (PendingFences(queue) \ PendingFences(q))

(* A wait for a fence nothing will signal does not return. *)
Met(fences) == fences \cap unsignalled \subseteq PendingFences(queue)

(* The GPU gets through the presents on its own.  Only begin_frame asks for *)
(* a fence without waiting for it, and only for theirs: nobody can tell any *)
(* other progress from none, which is the worst case for what is checked.   *)
GpuCatchesUp ==
  LET q == Waited(queue, {PresentFence(p) : p \in PresentSlots})
  IN /\ ~recording /\ q # queue
     /\ queue' = q /\ unsignalled' = Unsignalled(q)
     /\ UNCHANGED <<frameVars, flipping, textureVars, ringVars, recordVars, writebackVars>>

-----------------------------------------------------------------------------
(* Helpers of the handlers. *)

(* release_frame_uploads, while q is left of the queue: evicted textures    *)
(* wait for the presents under way, which may draw them.                    *)
Released(s, q) ==
  IF \E p \in PresentSlots : PresentFence(p) \in Unsignalled(q) THEN retired
  ELSE [retired EXCEPT ![s] = {}]

(* collect_writeback *)
CollectedIn(s) == [inFlight EXCEPT ![s] = NoWriteback]
CollectedReady(s) == IF inFlight[s] = NoWriteback THEN ready ELSE inFlight[s]

(* Mutant: destroyed_texture_clock is not raised. *)
EvictedUnnoted(r, e) == r

(* A record that names a texture no longer there is not drawn from again,   *)
(* so what it named is of no account.                                       *)
Evicted(r, e) ==
  IF e \cap r.since = {} THEN r
  ELSE [NoRecord EXCEPT !.recorded = TRUE, !.gone = TRUE]
Drawn(r, t) == IF r.recorded /\ ~r.gone THEN [r EXCEPT !.since = @ \cup {t}] ELSE r

(* reset_interpolation *)
ResetInterpolation ==
  /\ current' = NoRecord /\ newer' = NoRecord /\ older' = NoRecord
  /\ newerValid' = FALSE /\ cycle' = FALSE

(* Mutant: a present does not note the regions it reads. *)
SubmissionUnnoted(fence, textures, reads, noted) ==
  [fence |-> fence, textures |-> textures, reads |-> reads,
   noted |-> IF fence \in {PresentFence(p) : p \in PresentSlots} THEN {} ELSE noted]

(* What goes to the queue: the textures and regions its commands read, and  *)
(* the regions the renderer notes for its fence (FrameSlot::region,         *)
(* present_regions), which count until it has signalled.                    *)
Submission(fence, textures, reads, noted) ==
  [fence |-> fence, textures |-> textures, reads |-> reads, noted |-> noted]

SubmitFrame ==
  /\ queue' = Append(queue, Submission(FrameFence(slot), frame.drawn,
                        IF frame.drawn = {} THEN {} ELSE {frame.region}, {frame.region}))
  /\ frame' = NoFrame
  /\ UNCHANGED <<unsignalled, slot>>

-----------------------------------------------------------------------------
(* Recording a frame. *)

(* begin_frame.  repack: the texture pack is put on or off (apply_texture_  *)
(* pack), which drops every texture with the GPU idle.  wanted: what        *)
(* interpolation_wanted says; the governor, the settings, fast forward or a *)
(* held picture may change it between any two handlers, so it is open each  *)
(* time.                                                                    *)
BeginFrame(repack, wanted) ==
  LET s == (slot + 1) % SlotCount
      q1 == Waited(queue, {FrameFence(s)})
      q2 == IF repack THEN << >> ELSE q1
      r == IF wanted THEN nextRegion ELSE s
      users == {queue[i].fence : i \in {i \in DOMAIN queue : r \in queue[i].noted}}
      q3 == Waited(q2, users)
  IN /\ ~recording /\ Met({FrameFence(s)})
     /\ slot' = s /\ frame' = [interpolating |-> wanted, region |-> r, drawn |-> {}]
     /\ queue' = q3 /\ unsignalled' = Unsignalled(q3) \cup {FrameFence(s)}
     /\ retired' = IF repack THEN [o \in Slots |-> {}] ELSE Released(s, q1)
     /\ cached' = IF repack THEN {} ELSE cached
     /\ LET Kept(rec) == IF repack THEN Evicted(rec, Textures) ELSE rec
        IN /\ current' = IF wanted /\ ~current.recorded THEN [NoRecord EXCEPT !.recorded = TRUE]
                         ELSE Kept(current)
           /\ newer' = Kept(newer) /\ older' = Kept(older)
     /\ ready' = OlderPicture(CollectedReady(s))
     /\ inFlight' = [o \in Slots |-> OlderPicture(CollectedIn(s)[o])]
     /\ stored' = [b \in Buffers |-> Older(stored[b])]
     /\ UNCHANGED <<flipping, ringVars, newerValid, cycle>>

(* texture_for: t is drawn, from the cache or as a new texture, for which   *)
(* the one drawn longest ago makes room in a full cache.  Which that is is  *)
(* left open.                                                               *)
Fetched(t, e) ==
  \/ t \in cached /\ e = {} /\ UNCHANGED textureVars
  \/ /\ t \notin cached /\ \A s \in Slots : t \notin retired[s]
     /\ IF Cardinality(cached) < CacheLimit THEN e = {} ELSE \E x \in cached : e = {x}
     /\ cached' = (cached \ e) \cup {t}
     /\ retired' = [retired EXCEPT ![slot] = @ \cup e]

(* submit: a draw, kept for drawing again while frames are interpolated     *)
(* (record_draw_for_replay).                                                *)
Draw(t, e) ==
  /\ recording /\ ~flipping
  /\ Fetched(t, e)
  /\ frame' = [frame EXCEPT !.drawn = @ \cup {t}]
  /\ LET c == Drawn(Evicted(current, e), t)
     IN current' = IF frame.interpolating /\ c.recorded /\ ~c.gone
                   THEN [c EXCEPT !.textures = @ \cup {t}, !.regions = @ \cup {frame.region}]
                   ELSE c
  /\ newer' = Drawn(Evicted(newer, e), t) /\ older' = Drawn(Evicted(older, e), t)
  /\ UNCHANGED <<gpuVars, slot, flipping, ringVars, newerValid, cycle, writebackVars>>

(* present_ui: what is recorded is shown without a flip. *)
PresentUi ==
  /\ recording /\ ~flipping
  /\ SubmitFrame
  /\ UNCHANGED <<flipping, textureVars, ringVars, recordVars, writebackVars>>

(* Mutant: a picture collected before stays to be stored. *)
ReadBackKeeps(b) ==
  LET others == {o \in Slots \ {slot} : inFlight[o] # NoWriteback}
  IN /\ recording /\ ~flipping
     /\ queue' = << >> /\ unsignalled' = Unsignalled(<< >>) \cup {FrameFence(slot)}
     /\ retired' = Released(slot, << >>)
     /\ frame' = [frame EXCEPT !.drawn = {}]
     /\ inFlight' = [o \in Slots |-> NoWriteback]
     /\ stored' = [stored EXCEPT ![b] = 0]
     /\ LET r == IF others = {} THEN ready ELSE inFlight[CHOOSE o \in others : TRUE]
        IN ready' = r
     /\ UNCHANGED <<slot, flipping, cached, ringVars, recordVars>>

(* read_back_framebuffer: what is recorded runs, with all before it, and    *)
(* its picture is stored at once.                                           *)
ReadBack(b) ==
  LET others == {o \in Slots \ {slot} : inFlight[o] # NoWriteback}
  IN /\ recording /\ ~flipping
     /\ queue' = << >> /\ unsignalled' = Unsignalled(<< >>) \cup {FrameFence(slot)}
     /\ retired' = Released(slot, << >>)
     /\ frame' = [frame EXCEPT !.drawn = {}]
     /\ inFlight' = [o \in Slots |-> NoWriteback]
     /\ stored' = [stored EXCEPT ![b] = 0]
     /\ LET r == IF others = {} THEN ready ELSE inFlight[CHOOSE o \in others : TRUE]
        IN ready' = IF r.buffer = b THEN NoWriteback ELSE r
     /\ UNCHANGED <<slot, flipping, cached, ringVars, recordVars>>

-----------------------------------------------------------------------------
(* A flip. *)

(* write_back_frame: the picture of the frame before reaches guest memory.  *)
WriteBackFrame ==
  LET p == (slot + SlotCount - 1) % SlotCount
      collects == p # slot /\ inFlight[p] # NoWriteback
      r == IF collects THEN inFlight[p] ELSE ready
      q == IF collects THEN Waited(queue, {FrameFence(p)}) ELSE queue
  IN /\ ~flipping /\ flipping' = TRUE
     /\ collects => Met({FrameFence(p)})
     /\ queue' = q /\ unsignalled' = Unsignalled(q)
     /\ inFlight' = IF collects THEN CollectedIn(p) ELSE inFlight
     /\ ready' = NoWriteback
     /\ stored' = IF r = NoWriteback THEN stored ELSE [stored EXCEPT ![r.buffer] = r.age]
     /\ UNCHANGED <<frameVars, textureVars, ringVars, recordVars>>

(* finish_interpolated_frame *)
FinishInterpolated ==
  /\ older' = newer
  /\ newer' = IF frame.interpolating THEN current ELSE NoRecord
  /\ newerValid' = TRUE
  /\ current' = NoRecord /\ cycle' = TRUE
  /\ nextRegion' = (frame.region + 1) % FrameRegions

(* present: the flip's frame is submitted, to be shown by the presents      *)
(* after it or, without interpolation, at once; record_writeback takes the  *)
(* picture of the buffer it shows.                                          *)
Present(b, interpolates) ==
  /\ flipping /\ recording /\ flipping' = FALSE
  /\ inFlight' = [inFlight EXCEPT ![slot] = [age |-> 0, buffer |-> b]]
  /\ SubmitFrame
  /\ \/ interpolates /\ FinishInterpolated
     \/ /\ ~interpolates /\ UNCHANGED nextRegion
        /\ IF cycle \/ newerValid THEN ResetInterpolation ELSE UNCHANGED recordVars
  /\ UNCHANGED <<textureVars, presentSlot, ready, stored>>

-----------------------------------------------------------------------------
(* Presents between flips, and what ends them. *)

(* The last two frames can be blended, and no texture the older one draws   *)
(* has been evicted. *)
Paired == older.recorded /\ newer.recorded
TexturesKept == ~older.gone

(* Mutant: the fence is reset before there is an image to present to. *)
PresentBetweenResets(acquired, blends) ==
  LET p == presentSlot
      q == Waited(queue, {PresentFence(p)})
  IN /\ cycle /\ ~flipping /\ Met({PresentFence(p)})
     /\ presentSlot' \in PresentSlots \ {p}
     /\ \/ /\ ~acquired /\ ~blends
           /\ queue' = q /\ unsignalled' = Unsignalled(q) \cup {PresentFence(p)}
        \/ /\ acquired /\ (blends => Paired /\ TexturesKept)
           /\ queue' = Append(q, IF blends THEN Submission(PresentFence(p), older.textures, older.regions, older.regions)
                                ELSE Submission(PresentFence(p), {}, {}, {}))
           /\ unsignalled' = Unsignalled(q) \cup {PresentFence(p)}
     /\ UNCHANGED <<frameVars, flipping, textureVars, nextRegion, recordVars, writebackVars>>

(* present_between, when a present is due: in idle time, or while the game  *)
(* draws.  Without an image to present to it ends before it has recorded    *)
(* anything.                                                                *)
PresentBetween(acquired, blends) ==
  LET p == presentSlot
      q == Waited(queue, {PresentFence(p)})
  IN /\ cycle /\ ~flipping /\ Met({PresentFence(p)})
     /\ presentSlot' \in PresentSlots \ {p}
     /\ \/ /\ ~acquired /\ ~blends
           /\ queue' = q /\ unsignalled' = Unsignalled(q)
        \/ /\ acquired /\ (blends => Paired /\ TexturesKept)
           /\ queue' = Append(q, IF blends THEN Submission(PresentFence(p), older.textures, older.regions, older.regions)
                                ELSE Submission(PresentFence(p), {}, {}, {}))
           /\ unsignalled' = Unsignalled(q) \cup {PresentFence(p)}
     /\ UNCHANGED <<frameVars, flipping, textureVars, nextRegion, recordVars, writebackVars>>

(* pause_interpolation: the game stands still. *)
PauseInterpolation ==
  /\ cycle /\ ~flipping
  /\ cycle' = FALSE
  /\ UNCHANGED <<gpuVars, frameVars, flipping, textureVars, ringVars, current, newer, older, newerValid, writebackVars>>

(* set_frame_rate: the records start over. *)
SetFrameRate ==
  /\ ~flipping
  /\ ResetInterpolation
  /\ UNCHANGED <<gpuVars, frameVars, flipping, textureVars, ringVars, writebackVars>>

-----------------------------------------------------------------------------
Next ==
  \/ GpuCatchesUp
  \/ \E repack, wanted \in BOOLEAN : BeginFrame(repack, wanted)
  \/ \E t \in Textures, e \in SUBSET Textures : Draw(t, e)
  \/ PresentUi
  \/ \E b \in Buffers : ReadBack(b)
  \/ WriteBackFrame
  \/ \E b \in Buffers, interpolates \in BOOLEAN : Present(b, interpolates)
  \/ \E acquired, blends \in BOOLEAN : PresentBetween(acquired, blends)
  \/ PauseInterpolation \/ SetFrameRate

Spec == Init /\ [][Next]_vars

-----------------------------------------------------------------------------
Alive == cached \cup UNION {retired[s] : s \in Slots}

TypeOK ==
  /\ unsignalled \subseteq Fences /\ PendingFences(queue) \subseteq unsignalled
  /\ slot \in Slots /\ {frame.interpolating, flipping, cycle} \subseteq BOOLEAN
  /\ frame.region \in Regions \cup {NoRegion} /\ frame.drawn \subseteq Textures
  /\ cached \subseteq Textures /\ Cardinality(cached) <= CacheLimit
  /\ nextRegion \in Regions

(* No texture that the GPU may still draw, for a frame or for a present     *)
(* that draws an older frame again, has been destroyed, and the upload and  *)
(* write-back memory of the slot being recorded is not under way.           *)
NothingInUseIsDestroyed ==
  /\ \A i \in DOMAIN queue : queue[i].textures \subseteq Alive
  /\ recording => frame.drawn \subseteq Alive /\ FrameFence(slot) \notin PendingFences(queue)

(* A fence that has not signalled is one the GPU will signal, or that of    *)
(* the frame being recorded: no wait of the renderer is for ever.           *)
NoFenceForgotten ==
  /\ TypeOK
  /\ unsignalled = PendingFences(queue) \cup (IF recording THEN {FrameFence(slot)} ELSE {})

(* While frames are interpolated, no frame is written over vertices that a  *)
(* frame in flight or a present between flips draws from.                   *)
RegionsApart ==
  recording /\ frame.interpolating => \A i \in DOMAIN queue : frame.region \notin queue[i].reads

(* Guest memory never goes back to an older picture of a buffer, and a      *)
(* picture is only taken when its frame has finished.                       *)
WriteBacksInOrder ==
  [][/\ \A b \in Buffers : stored'[b] <= IF recording' /\ ~recording THEN Older(stored[b]) ELSE stored[b]
     /\ \A s \in Slots : inFlight[s] # NoWriteback /\ inFlight'[s] = NoWriteback =>
          FrameFence(s) \notin PendingFences(queue')]_vars
=============================================================================
