-------------------------- MODULE ExoPoseEstimator --------------------------
(***************************************************************************)
(* pose::exo_pose_estimator: from the tags of a frame to the rotations of    *)
(* the joints, with what it remembers of earlier frames.  It runs on the     *)
(* loop's thread only; frames, commands and options come in any order, and   *)
(* timestamps go back when a recording is repeated or sought.               *)
(* Rotations are an abstract group with a twist about the hinge axis; a      *)
(* quaternion and its negation are one rotation.                            *)
(* A definition marked FAULTY is a defect that one of the properties at the  *)
(* end catches; the specification does not use it.                          *)
(***************************************************************************)
EXTENDS Integers, Sequences

CONSTANTS
    Joints,
    Parent,            \* a joint's parent; a root is its own
    Rotations, Identity, Compose(_, _), Conjugate(_),
    Twist(_),          \* the part of a rotation that is about the hinge axis
    Distance(_, _),    \* angularDistance()
    Slerp(_, _, _),    \* from a rotation towards another by a weight
    Weights,           \* the filter's, which depend on speed and rate
    Options,           \* settings of the switches and of the hold and reset times
    Views,             \* what a frame may show of each joint
    Ranges,            \* of each joint, rotations among which it moves
    MaxHold, ResetGap, \* max_hold and reset_gap before anyone edits them
    MaxTime            \* bound: timestamps

None == <<>>

a ** b == Compose(a, b)

ASSUME RotationsAreAGroup ==
    /\ None \notin Rotations
    /\ Identity \in Rotations
    /\ \A a \in Rotations :
          /\ Conjugate(a) \in Rotations
          /\ Conjugate(a) ** a = Identity
          /\ a ** Conjugate(a) = Identity
          /\ Identity ** a = a
          /\ a ** Identity = a
    /\ \A a, b \in Rotations : a ** b \in Rotations
    /\ \A a, b, c \in Rotations : (a ** b) ** c = a ** (b ** c)

\* What is left of a rotation when its twist is removed has no twist.
ASSUME TwistIsRemovable ==
    /\ Twist(Identity) = Identity
    /\ \A a \in Rotations : /\ Twist(a) \in Rotations
                            /\ Twist(Conjugate(Twist(a)) ** a) = Identity

ASSUME FilterIsARotation ==
    \A a, b \in Rotations, w \in Weights : Slerp(a, b, w) \in Rotations

\* Of the candidates of a joint one lies in its range, which is the best or tied
\* with it, and is closer to all of the range than one that does not; in between
\* the filter stays in it.  The rotations all together are such a range.
ASSUME RangesExcludeFlips ==
    /\ \A a, b \in Rotations : Distance(a, b) \in Nat
    /\ Ranges \in [Joints -> SUBSET Rotations]
    /\ \A j \in Joints :
          /\ \A a, b \in Ranges[j], w \in Weights : Slerp(a, b, w) \in Ranges[j]
          /\ \A v \in Views[j] : v.candidates # <<>> =>
                \E i \in DOMAIN v.candidates :
                   /\ v.candidates[i] \in Ranges[j]
                   /\ i # 1 => v.nearTie
                   /\ \A k \in DOMAIN v.candidates, q \in Ranges[j] :
                         v.candidates[k] \notin Ranges[j] =>
                            Distance(q, v.candidates[i]) < Distance(q, v.candidates[k])

\* At most two candidates, of ascending error, near-tied or not.
ASSUME EstimatorAssumption ==
    /\ Parent \in [Joints -> Joints]
    /\ \A j \in Joints : \A v \in Views[j] :
          v.candidates \in Seq(Rotations) /\ Len(v.candidates) <= 2 /\ v.nearTie \in BOOLEAN
    /\ Options \subseteq BOOLEAN \X BOOLEAN \X Nat \X Nat
    /\ MaxHold \in Nat /\ ResetGap \in Nat /\ MaxTime \in Nat

Times == 0..MaxTime

VARIABLES
    smoothing, hinge,  \* enable_smoothing, enable_hinge_constraint
    maxHold, resetGap, \* max_hold, reset_gap
    lastOut, lastSeen, \* filter_states: last_out, which the kernel keeps too; last_seen
    rest,              \* rest_pose; no joint has one when it is not captured
    detected,          \* last_frame_detection_flags
    global, local, anim, \* last_frame_joint_states: global_rot, local_rot, local_anim_rot
    now,               \* history: the last frame's timestamp
    current,           \* history: a frame came since the rest pose or an option changed
    captured           \* history: the rest pose is that of the outputs

options   == <<smoothing, hinge, maxHold, resetGap>>
outputs   == <<detected, global, local, anim>>
trackVars == <<lastOut, lastSeen>>
vars      == <<options, trackVars, rest, outputs, now, current, captured>>

Nothing == [j \in Joints |-> None]

Init ==
    /\ smoothing = TRUE /\ hinge = TRUE
    /\ maxHold = MaxHold /\ resetGap = ResetGap
    /\ lastOut = Nothing /\ lastSeen = [j \in Joints |-> 0]
    /\ rest = Nothing
    /\ detected = {}
    /\ global = Nothing /\ local = Nothing /\ anim = Nothing
    /\ now = 0
    /\ current = FALSE
    /\ captured = FALSE

-----------------------------------------------------------------------------
(* Passes 1 and 2: candidates, smoothing, hold                              *)

IsRoot(j) == Parent[j] = j

\* A captured pelvis is a fixed base.
Locked(j) == hinge /\ IsRoot(j) /\ rest[j] # None

Shown(frame, j) == frame[j].candidates # <<>>

HeldForever(j, t) == lastOut[j] # None                          \* FAULTY

Held(j, t) == lastOut[j] # None /\ t - lastSeen[j] <= maxHold

\* Whether the frame leaves joint j with a global rotation; a parent's is
\* resolved before its children's.
Present(frame, j, t) == Locked(j) \/ Shown(frame, j) \/ Held(j, t)

GuidedUntilGap(frame, j, t) ==                                  \* FAULTY
    /\ hinge /\ rest[j] # None
    /\ IsRoot(j) \/ Present(frame, Parent[j], t)
    /\ lastOut[j] # None /\ t - lastSeen[j] <= resetGap

\* A near-tie may be decided by the track, however old it is.
Guided(frame, j, t) ==
    /\ hinge /\ rest[j] # None
    /\ IsRoot(j) \/ Present(frame, Parent[j], t)
    /\ lastOut[j] # None

\* The candidate of least error, or of two near-tied ones the one that is
\* closer to the track.
Selected(frame, j, t) ==
    LET c == frame[j].candidates
    IN  IF /\ Guided(frame, j, t) /\ Len(c) = 2 /\ frame[j].nearTie
           /\ Distance(lastOut[j], c[2]) < Distance(lastOut[j], c[1])
        THEN c[2] ELSE c[1]

Reseeded(j, t) == ~smoothing \/ lastOut[j] = None \/ t - lastSeen[j] > resetGap

Smoothed(frame, j, t, w) ==
    IF Reseeded(j, t) THEN Selected(frame, j, t)
    ELSE Slerp(lastOut[j], Selected(frame, j, t), w)

\* The joints whose track the frame moves.
Sampled(frame) == {j \in Joints : Shown(frame, j) /\ ~Locked(j)}

-----------------------------------------------------------------------------
(* Pass 3: what is sent, from the global rotations g                        *)

\* Relative to the parent, fresh or held; a root to the camera.
Relative(g, j) ==
    IF IsRoot(j) THEN g[j]
    ELSE IF g[j] = None \/ g[Parent[j]] = None THEN None
    ELSE Conjugate(g[Parent[j]]) ** g[j]

Hinged(j) == hinge /\ rest[j] # None /\ ~IsRoot(j)

\* From the rest pose to the relative rotation r.
FromRest(r, j) ==
    IF Locked(j) THEN Identity
    ELSE IF rest[j] = None THEN r
    ELSE IF Hinged(j) THEN Twist(Conjugate(rest[j]) ** r)
    ELSE Conjugate(rest[j]) ** r

Anim(g, j) == LET r == Relative(g, j) IN IF r = None THEN None ELSE FromRest(r, j)

LocalUnconstrained(g, j) == Relative(g, j)                      \* FAULTY

\* Made consistent with the constrained animation rotation.
Local(g, j) ==
    LET r == Relative(g, j)
    IN  IF r # None /\ Hinged(j) THEN rest[j] ** FromRest(r, j) ELSE r

-----------------------------------------------------------------------------
(* Operations *)

Update(t, frame, weight) ==
    /\ lastOut' = [j \in Joints |-> IF j \in Sampled(frame)
                                    THEN Smoothed(frame, j, t, weight[j]) ELSE lastOut[j]]
    /\ lastSeen' = [j \in Joints |-> IF j \in Sampled(frame) THEN t ELSE lastSeen[j]]
    /\ detected' = {j \in Joints : Shown(frame, j)}
    /\ global' = [j \in Joints |-> IF Locked(j) THEN rest[j]
                                   ELSE IF Present(frame, j, t) THEN lastOut'[j] ELSE None]
    /\ local' = [j \in Joints |-> Local(global', j)]
    /\ anim' = [j \in Joints |-> Anim(global', j)]
    /\ now' = t
    /\ current' = TRUE
    /\ captured' = FALSE
    /\ UNCHANGED <<options, rest>>

CalibrateSeenOnly ==                                            \* FAULTY
    /\ rest' = [j \in detected |-> local[j]]
    /\ captured' = TRUE
    /\ current' = FALSE
    /\ UNCHANGED <<options, trackVars, outputs, now>>

CalibrateGlobals ==                                             \* FAULTY
    /\ rest' = [j \in Joints |-> IF j \in detected THEN global[j] ELSE None]
    /\ captured' = TRUE
    /\ current' = FALSE
    /\ UNCHANGED <<options, trackVars, outputs, now>>

\* Only joints the last frame showed; without any, a captured pose is dropped.
CalibrateRestPose ==
    /\ rest' = [j \in Joints |-> IF j \in detected THEN local[j] ELSE None]
    /\ captured' = TRUE
    /\ current' = FALSE
    /\ UNCHANGED <<options, trackVars, outputs, now>>

ClearRestPose ==
    /\ rest' = Nothing
    /\ captured' = FALSE
    /\ current' = FALSE
    /\ UNCHANGED <<options, trackVars, outputs, now>>

\* The GUI's check boxes and sliders, which the next frame takes up.
SetOptions(smooth, constrain, hold, gap) ==
    /\ smoothing' = smooth
    /\ hinge' = constrain
    /\ maxHold' = hold
    /\ resetGap' = gap
    /\ current' = FALSE
    /\ UNCHANGED <<trackVars, rest, outputs, now, captured>>

Frames == {f \in [Joints -> UNION {Views[j] : j \in Joints}] : \A j \in Joints : f[j] \in Views[j]}

Next ==
    \/ \E t \in Times, frame \in Frames, weight \in [Joints -> Weights] : Update(t, frame, weight)
    \/ CalibrateRestPose
    \/ ClearRestPose
    \/ \E o \in Options : SetOptions(o[1], o[2], o[3], o[4])

Spec == Init /\ [][Next]_vars

-----------------------------------------------------------------------------
(* Properties *)

RotationOrNone == Rotations \cup {None}

\* Every variable holds a value of its type.
TypeOK ==
    /\ smoothing \in BOOLEAN /\ hinge \in BOOLEAN
    /\ maxHold \in Nat /\ resetGap \in Nat
    /\ lastOut \in [Joints -> RotationOrNone] /\ lastSeen \in [Joints -> Times]
    /\ rest \in [Joints -> RotationOrNone]
    /\ detected \subseteq Joints
    /\ global \in [Joints -> RotationOrNone]
    /\ local \in [Joints -> RotationOrNone]
    /\ anim \in [Joints -> RotationOrNone]
    /\ now \in Times
    /\ current \in BOOLEAN
    /\ captured \in BOOLEAN

\* The two rotations sent of a joint share presence, and the local one is the
\* rest rotation followed by the animation rotation, constrained or not.
RotationsAgree ==
    current => \A j \in Joints :
        /\ local[j] = None <=> anim[j] = None
        /\ local[j] # None =>
              local[j] = IF rest[j] = None THEN anim[j] ELSE rest[j] ** anim[j]

\* A joint is there exactly when it or its fixed base was, within the hold
\* window; a child is when its parent is, so a brief occlusion of the parent
\* does not cascade.
PresentWithinHold ==
    current => \A j \in Joints :
        /\ global[j] # None <=>
              Locked(j) \/ (lastOut[j] # None /\ now - lastSeen[j] <= maxHold)
        /\ local[j] # None <=> global[j] # None /\ global[Parent[j]] # None

\* A frame that shows the stance the rest pose was captured in makes its joints
\* neutral, even if the capture was made over an earlier rest pose and its
\* constraint.
RestIsNeutral ==
    [][captured /\ current' => \A j \in Joints :
          /\ hinge /\ rest[j] # None
          /\ global'[j] = global[j]
          /\ global'[Parent[j]] = global[Parent[j]]
          => anim'[j] = Identity]_vars

\* A joint with a rest pose whose parent is there does not leave its range for a
\* flip of its tag, whichever of two near-tied candidates comes first, however long
\* it was hidden and whatever the filter makes of its samples.
TrackIsKept ==
    [][\A j \in Joints :
          /\ hinge /\ rest[j] # None
          /\ global'[Parent[j]] # None
          /\ lastOut[j] \in Ranges[j]
          => lastOut'[j] \in Ranges[j]]_vars

\* A joint that is lost, and not seen again or locked, stays lost: its last
\* rotation is held for a while only.
LostStaysLost ==
    [][\A j \in Joints :
          global[j] = None /\ j \notin detected' /\ ~Locked(j)' => global'[j] = None]_vars
=============================================================================
