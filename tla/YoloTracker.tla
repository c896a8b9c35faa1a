----------------------------- MODULE YoloTracker -----------------------------
(***************************************************************************)
(* What the web UI does with the detections of a frame (cmd/webui.go, the  *)
(* result processor): the remote detector turns the boxes of the gateway   *)
(* into pixels (yolo/distributed.go) and ONE tracker gives the detections  *)
(* of ALL cameras their track ids (yolo/tracker.go).                       *)
(*                                                                         *)
(* The scene: objects that stand still, each before one camera, seen or    *)
(* missed by the detector in each frame.  A box is an interval, which is   *)
(* the IoU of boxes of one height; classes are all the same; the velocity, *)
(* which no decision depends on, is left out.                              *)
(***************************************************************************)
EXTENDS Integers, FiniteSets, Sequences, SequencesExt

CONSTANTS TrkCameras, TrkObjects,
          ObjectCamera,    \* object -> camera
          ObjectBox,       \* object -> <<x1, x2>> in hundredths of the image
          FrameWidth,      \* width of the frames, 0 when it is not known
          TrackBuffer,     \* trackBuffer
          MaxTrackId,      \* bound: ids the tracker gives
          MaxJunk          \* bound: malformed boxes in one answer

VARIABLES tracks,          \* id -> [box, missed] of the tracks the tracker keeps
          nextTrackId,     \* nextID
          shownId,         \* object -> the id of its last detection, 0 if none
          unseen           \* object -> updates since it was detected last

trkVars == <<tracks, nextTrackId, shownId, unseen>>

-----------------------------------------------------------------------------
(* A box of the answer in pixels; without a width 640 is taken; a box with *)
(* fewer than four numbers is not left out but becomes an empty one.       *)
PixelsWide == IF FrameWidth > 0 THEN FrameWidth ELSE 640
ToPixels(b) == <<(b[1] * PixelsWide) \div 100, (b[2] * PixelsWide) \div 100>>
ZeroBox == <<0, 0>>
Junk == "junk"

(* The objects are in the image, and large enough to be a pixel wide.      *)
ASSUME TrackerAssumption ==
    /\ IsFiniteSet(TrkObjects) /\ Junk \notin TrkObjects
    /\ TrackBuffer \in Nat \ {0} /\ {FrameWidth, MaxTrackId, MaxJunk} \subseteq Nat
    /\ ObjectBox \in [TrkObjects -> Nat \X Nat]
    /\ \A o \in TrkObjects : ToPixels(ObjectBox[o])[1] < ToPixels(ObjectBox[o])[2]

(* IoU(a, b) > 0.3, over integers. *)
MinOf(a, b) == IF a < b THEN a ELSE b
MaxOf(a, b) == IF a > b THEN a ELSE b
Intersection(a, b) == MaxOf(0, MinOf(a[2], b[2]) - MaxOf(a[1], b[1]))
UnionOf(a, b) == (a[2] - a[1]) + (b[2] - b[1]) - Intersection(a, b)
Matches(a, b) == Intersection(a, b) * 10 > 3 * UnionOf(a, b)
Closer(a, b, c) == Intersection(a, c) * UnionOf(b, c) > Intersection(b, c) * UnionOf(a, c)

(* The tracks a detection may be given to: the best match, any of the best *)
(* when they tie (the order of a Go map).  A track found earlier in the    *)
(* same frame, or made in it, is a candidate too.                          *)
Best(ts, box) ==
    {i \in DOMAIN ts : /\ Matches(ts[i].box, box)
                       /\ \A j \in DOMAIN ts : ~Closer(ts[j].box, ts[i].box, box)}

(* One detection: st is [ts, next, given].  It goes to a best track, or to *)
(* a new one, which then has the next id.                                  *)
Put(ts, i, box) ==
    [j \in DOMAIN ts \cup {i} |-> IF j = i THEN [box |-> box, missed |-> 0] ELSE ts[j]]

Give(given, o, i) == IF o = Junk THEN given ELSE [given EXCEPT ![o] = i]

AssignDetection(st, d) ==
    {[ts    |-> Put(st.ts, i, d.box),
      next  |-> IF i = st.next THEN st.next + 1 ELSE st.next,
      given |-> Give(st.given, d.o, i)] :
        i \in IF Best(st.ts, d.box) = {} THEN {st.next} ELSE Best(st.ts, d.box)}

(* Wrong variant of AgeTracks: a track is dropped one update early. *)
AgeTracksEarly(ts) ==
    LET kept == {i \in DOMAIN ts : ts[i].missed + 1 < TrackBuffer} IN
    [i \in kept |-> [ts[i] EXCEPT !.missed = @ + 1]]

(* After the detections every track counts the update; too old ones go. *)
AgeTracks(ts) ==
    LET kept == {i \in DOMAIN ts : ts[i].missed + 1 <= TrackBuffer} IN
    [i \in kept |-> [ts[i] EXCEPT !.missed = @ + 1]]

(* What the detections of a frame, one after the other, may lead to.       *)
Updates(dets) ==
    LET after[k \in 0..Len(dets)] ==
          IF k = 0 THEN {[ts |-> tracks, next |-> nextTrackId, given |-> shownId]}
          ELSE UNION {AssignDetection(st, dets[k]) : st \in after[k - 1]}
    IN after[Len(dets)]

-----------------------------------------------------------------------------
TrkTypeOK ==
    /\ nextTrackId \in 1..MaxTrackId + 1
    /\ DOMAIN tracks \subseteq 1..(nextTrackId - 1)
    /\ \A i \in DOMAIN tracks : tracks[i].missed \in 1..TrackBuffer
    /\ shownId \in [TrkObjects -> 0..MaxTrackId]
    /\ unseen \in [TrkObjects -> 0..TrackBuffer]

TrkInit ==
    /\ tracks = <<>>
    /\ nextTrackId = 1
    /\ shownId = [o \in TrkObjects |-> 0]
    /\ unseen = [o \in TrkObjects |-> 0]

(* The result of a frame of one camera reaches the processor: the objects  *)
(* seen, in any order, and malformed boxes.  A frame whose detection       *)
(* failed does not reach the tracker at all, so it is no step here.        *)
FrameOf(cam) ==
    \E seen \in SUBSET {o \in TrkObjects : ObjectCamera[o] = cam}, junk \in 0..MaxJunk :
    \E order \in SetToSeqs({[o |-> o, box |-> ToPixels(ObjectBox[o])] : o \in seen}) :
    \E st \in Updates(order \o [k \in 1..junk |-> [o |-> Junk, box |-> ZeroBox]]) :
      /\ st.next <= MaxTrackId + 1
      /\ tracks' = AgeTracks(st.ts)
      /\ nextTrackId' = st.next
      /\ shownId' = st.given
      /\ unseen' = [o \in TrkObjects |->
                      IF o \in seen THEN 0 ELSE MinOf(unseen[o] + 1, TrackBuffer)]

TrkNext == \E cam \in TrkCameras : FrameOf(cam)

TrkSpec == TrkInit /\ [][TrkNext]_trkVars

-----------------------------------------------------------------------------
(* An object no other object overlaps, on any camera (the tracker does not *)
(* know cameras), keeps its track id for as long as it is not missing in   *)
(* TrackBuffer updates one after the other, whatever the other cameras     *)
(* send in between and however the frames interleave.                      *)
Isolated == {o \in TrkObjects : \A p \in TrkObjects \ {o} :
               Intersection(ToPixels(ObjectBox[o]), ToPixels(ObjectBox[p])) = 0}

IsolatedKeepsId ==
    [][\A o \in Isolated : shownId[o] # 0 /\ unseen[o] < TrackBuffer
                           => shownId'[o] = shownId[o]]_trkVars
=============================================================================
