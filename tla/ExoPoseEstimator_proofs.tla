----------------------- MODULE ExoPoseEstimator_proofs -----------------------
(***************************************************************************)
(* Theorems about ExoPoseEstimator, for any skeleton, any group of rotations *)
(* with a removable twist, any frames, and hold and reset times that change. *)
(***************************************************************************)
EXTENDS ExoPoseEstimator, TLAPS

-----------------------------------------------------------------------------
(* Rotations *)

\* Cancelling a rotation on the left.
LEMMA Cancel ==
    ASSUME NEW a \in Rotations, NEW b \in Rotations
    PROVE  /\ Conjugate(a) ** (a ** b) = b
           /\ a ** (Conjugate(a) ** b) = b
  <1>1. Conjugate(a) \in Rotations
    BY RotationsAreAGroup
  <1>2. (Conjugate(a) ** a) ** b = Conjugate(a) ** (a ** b)
    BY <1>1, RotationsAreAGroup
  <1>3. (a ** Conjugate(a)) ** b = a ** (Conjugate(a) ** b)
    BY <1>1, RotationsAreAGroup
  <1> QED
    BY <1>2, <1>3, RotationsAreAGroup

\* The conjugate of a product is the product of the conjugates, reversed.
LEMMA ConjugateOfProduct ==
    ASSUME NEW a \in Rotations, NEW b \in Rotations
    PROVE  Conjugate(a ** b) = Conjugate(b) ** Conjugate(a)
  <1> DEFINE ab == a ** b
             d  == Conjugate(b) ** Conjugate(a)
  <1>1. /\ Conjugate(a) \in Rotations /\ Conjugate(b) \in Rotations
        /\ ab \in Rotations
    BY RotationsAreAGroup
  <1>2. d \in Rotations /\ Conjugate(ab) \in Rotations
    BY <1>1, RotationsAreAGroup
  <1>3. d ** ab = Identity
    <2>1. d ** ab = Conjugate(b) ** (Conjugate(a) ** ab)
      BY <1>1, RotationsAreAGroup
    <2>2. Conjugate(a) ** ab = b
      BY Cancel
    <2> QED
      BY <2>1, <2>2, RotationsAreAGroup
  <1>4. d = (d ** ab) ** Conjugate(ab)
    <2>1. (d ** ab) ** Conjugate(ab) = d ** (ab ** Conjugate(ab))
      BY <1>1, <1>2, RotationsAreAGroup
    <2>2. ab ** Conjugate(ab) = Identity
      BY <1>1, RotationsAreAGroup
    <2> QED
      BY <2>1, <2>2, <1>2, RotationsAreAGroup
  <1>5. Identity ** Conjugate(ab) = Conjugate(ab)
    BY <1>2, RotationsAreAGroup
  <1> QED
    BY <1>3, <1>4, <1>5

\* A rest rotation that was made of a constrained joint leaves nothing to the
\* hinge when the joint is again where it was.
LEMMA ConstrainedIsNeutral ==
    ASSUME NEW r \in Rotations, NEW x \in Rotations
    PROVE  LET y == Conjugate(r) ** x
           IN  Twist(Conjugate(r ** Twist(y)) ** x) = Identity
  <1> DEFINE y == Conjugate(r) ** x
             t == Twist(y)
  <1>1. Conjugate(r) \in Rotations /\ y \in Rotations
    BY RotationsAreAGroup
  <1>2. t \in Rotations /\ Conjugate(t) \in Rotations
    BY <1>1, RotationsAreAGroup, TwistIsRemovable
  <1>3. Conjugate(r ** t) ** x = Conjugate(t) ** y
    <2>1. Conjugate(r ** t) = Conjugate(t) ** Conjugate(r)
      BY <1>2, ConjugateOfProduct
    <2>2. (Conjugate(t) ** Conjugate(r)) ** x = Conjugate(t) ** (Conjugate(r) ** x)
      BY <1>1, <1>2, RotationsAreAGroup
    <2> QED
      BY <2>1, <2>2
  <1>4. Twist(Conjugate(t) ** y) = Identity
    BY <1>1, TwistIsRemovable
  <1> QED
    BY <1>3, <1>4

-----------------------------------------------------------------------------
(* Types *)

\* A frame shows each joint as its views allow.
LEMMA FrameView ==
    ASSUME NEW frame \in Frames, NEW j \in Joints
    PROVE  /\ frame[j].candidates \in Seq(Rotations)
           /\ Len(frame[j].candidates) <= 2
  BY EstimatorAssumption DEF Frames

\* A joint that is shown has a sample, and its track becomes a rotation.
LEMMA SmoothedType ==
    ASSUME TypeOK, NEW frame \in Frames, NEW j \in Joints, NEW t \in Times,
           NEW w \in Weights, Shown(frame, j)
    PROVE  Smoothed(frame, j, t, w) \in Rotations
  <1> DEFINE c == frame[j].candidates
  <1>1. c \in Seq(Rotations) /\ c # <<>>
    BY FrameView DEF Shown
  <1>2. c[1] \in Rotations /\ (Len(c) = 2 => c[2] \in Rotations)
    BY <1>1
  <1>3. Selected(frame, j, t) \in Rotations
    BY <1>2, Zenon DEF Selected
  <1>4. lastOut[j] = None \/ lastOut[j] \in Rotations
    BY DEF TypeOK, RotationOrNone
  <1> QED
    BY <1>3, <1>4, FilterIsARotation DEF Smoothed, Reseeded

\* What is sent of a joint is a rotation or nothing, given global rotations that are.
LEMMA SentType ==
    ASSUME TypeOK, NEW g \in [Joints -> RotationOrNone], NEW j \in Joints
    PROVE  /\ Relative(g, j) \in RotationOrNone
           /\ Relative(g, j) \in Rotations => FromRest(Relative(g, j), j) \in Rotations
           /\ Local(g, j) \in RotationOrNone
           /\ Anim(g, j) \in RotationOrNone
           /\ Local(g, j) = None <=> Relative(g, j) = None
           /\ Anim(g, j) = None <=> Relative(g, j) = None
  <1> DEFINE r == Relative(g, j)
  <1>1. Parent[j] \in Joints /\ g[j] \in RotationOrNone /\ g[Parent[j]] \in RotationOrNone
    BY EstimatorAssumption
  <1>2. r \in RotationOrNone
    <2>1. CASE IsRoot(j)
      BY <1>1, <2>1 DEF Relative
    <2>2. CASE ~IsRoot(j) /\ (g[j] = None \/ g[Parent[j]] = None)
      BY <2>2 DEF Relative, RotationOrNone
    <2>3. CASE ~IsRoot(j) /\ g[j] \in Rotations /\ g[Parent[j]] \in Rotations
      <3>1. Conjugate(g[Parent[j]]) ** g[j] \in Rotations
        BY <2>3, RotationsAreAGroup
      <3>2. g[j] # None /\ g[Parent[j]] # None
        BY <2>3, RotationsAreAGroup
      <3> QED
        BY <2>3, <3>1, <3>2 DEF Relative, RotationOrNone
    <2> QED
      BY <1>1, <2>1, <2>2, <2>3 DEF RotationOrNone
  <1>3. rest[j] = None \/ rest[j] \in Rotations
    BY DEF TypeOK, RotationOrNone
  <1>4. ASSUME r \in Rotations
        PROVE  FromRest(r, j) \in Rotations
    <2>1. CASE rest[j] = None
      BY <1>4, <2>1, RotationsAreAGroup DEF FromRest
    <2>2. CASE rest[j] \in Rotations
      <3>1. Conjugate(rest[j]) ** r \in Rotations
        BY <1>4, <2>2, RotationsAreAGroup
      <3>2. Twist(Conjugate(rest[j]) ** r) \in Rotations
        BY <3>1, TwistIsRemovable
      <3> QED
        BY <1>4, <3>1, <3>2, RotationsAreAGroup DEF FromRest
    <2> QED
      BY <1>3, <2>1, <2>2
  <1>5. None \notin Rotations
    BY RotationsAreAGroup
  <1>6. /\ Anim(g, j) \in RotationOrNone
        /\ Anim(g, j) = None <=> r = None
    BY <1>2, <1>4, <1>5 DEF Anim, RotationOrNone
  <1>7. /\ Local(g, j) \in RotationOrNone
        /\ Local(g, j) = None <=> r = None
    <2>1. CASE r # None /\ Hinged(j)
      <3>1. rest[j] \in Rotations /\ FromRest(r, j) \in Rotations
        BY <1>2, <1>3, <1>4, <2>1 DEF Hinged, RotationOrNone
      <3>2. rest[j] ** FromRest(r, j) \in Rotations
        BY <3>1, RotationsAreAGroup
      <3> QED
        BY <2>1, <3>2, <1>5 DEF Local, RotationOrNone
    <2>2. CASE ~(r # None /\ Hinged(j))
      BY <1>2, <2>2 DEF Local
    <2> QED
      BY <2>1, <2>2
  <1> QED
    BY <1>2, <1>4, <1>6, <1>7

\* Timestamps are whole numbers.
LEMMA TimesAreNat == Times \subseteq Nat
  BY EstimatorAssumption DEF Times

\* A frame keeps the types.
LEMMA UpdateType ==
    ASSUME TypeOK, NEW t \in Times, NEW frame \in Frames,
           NEW weight \in [Joints -> Weights], Update(t, frame, weight)
    PROVE  TypeOK'
  <1>1. ASSUME NEW j \in Joints
        PROVE  IF j \in Sampled(frame) THEN lastOut'[j] \in Rotations
               ELSE lastOut'[j] = lastOut[j] /\ lastOut[j] \in RotationOrNone
    <2>1. lastOut'[j] = IF j \in Sampled(frame)
                        THEN Smoothed(frame, j, t, weight[j]) ELSE lastOut[j]
      BY DEF Update
    <2>2. j \in Sampled(frame) => Smoothed(frame, j, t, weight[j]) \in Rotations
      BY SmoothedType DEF Sampled
    <2> QED
      BY <2>1, <2>2 DEF TypeOK
  <1>2. lastOut' \in [Joints -> RotationOrNone]
    BY <1>1 DEF Update, RotationOrNone
  <1>3. lastSeen' \in [Joints -> Times]
    BY DEF TypeOK, Update
  <1>4. global' \in [Joints -> RotationOrNone]
    <2>1. ASSUME NEW j \in Joints
          PROVE  (IF Locked(j) THEN rest[j]
                  ELSE IF Present(frame, j, t) THEN lastOut'[j] ELSE None) \in RotationOrNone
      BY <1>2 DEF TypeOK, RotationOrNone
    <2> QED
      BY <2>1 DEF Update
  <1>5. ASSUME NEW j \in Joints
        PROVE  Local(global', j) \in RotationOrNone /\ Anim(global', j) \in RotationOrNone
    BY <1>4, SentType
  <1>6. local' \in [Joints -> RotationOrNone] /\ anim' \in [Joints -> RotationOrNone]
    BY <1>5 DEF Update
  <1>7. detected' \subseteq Joints /\ now' \in Times /\ current' \in BOOLEAN /\ captured' \in BOOLEAN
    BY DEF Update
  <1>8. /\ smoothing' \in BOOLEAN /\ hinge' \in BOOLEAN
        /\ maxHold' \in Nat /\ resetGap' \in Nat
        /\ rest' \in [Joints -> RotationOrNone]
    BY DEF TypeOK, Update, options
  <1> QED
    BY <1>2, <1>3, <1>4, <1>6, <1>7, <1>8 DEF TypeOK, RotationOrNone

\* Every step keeps the types.
LEMMA StepType == TypeOK /\ [Next]_vars => TypeOK'
  <1> SUFFICES ASSUME TypeOK, [Next]_vars
               PROVE  TypeOK'
    OBVIOUS
  <1>1. ASSUME NEW t \in Times, NEW frame \in Frames, NEW weight \in [Joints -> Weights],
               Update(t, frame, weight)
        PROVE  TypeOK'
    BY <1>1, UpdateType
  <1>2. CASE CalibrateRestPose
    <2>1. rest' \in [Joints -> RotationOrNone]
      BY <1>2 DEF TypeOK, CalibrateRestPose, RotationOrNone
    <2> QED
      BY <1>2, <2>1 DEF TypeOK, CalibrateRestPose, options, trackVars, outputs, RotationOrNone
  <1>3. CASE ClearRestPose
    <2>1. rest' \in [Joints -> RotationOrNone]
      BY <1>3 DEF ClearRestPose, Nothing, RotationOrNone
    <2> QED
      BY <1>3, <2>1 DEF TypeOK, ClearRestPose, options, trackVars, outputs, RotationOrNone
  <1>4. ASSUME NEW o \in Options, SetOptions(o[1], o[2], o[3], o[4])
        PROVE  TypeOK'
    <2>1. o[1] \in BOOLEAN /\ o[2] \in BOOLEAN /\ o[3] \in Nat /\ o[4] \in Nat
      BY EstimatorAssumption
    <2>2. smoothing' \in BOOLEAN /\ hinge' \in BOOLEAN /\ current' \in BOOLEAN
      BY <1>4, <2>1, Zenon DEF SetOptions
    <2>3. maxHold' \in Nat /\ resetGap' \in Nat
      BY <1>4, <2>1, Zenon DEF SetOptions
    <2> QED
      BY <1>4, <2>2, <2>3 DEF TypeOK, SetOptions, trackVars, outputs, RotationOrNone
  <1>5. CASE UNCHANGED vars
    BY <1>5 DEF TypeOK, vars, options, trackVars, outputs, RotationOrNone
  <1> QED
    BY <1>1, <1>2, <1>3, <1>4, <1>5 DEF Next

\* Every variable holds a value of its type.
THEOREM Typing == Spec => []TypeOK
  <1>1. Init => TypeOK
    <2>1. Nothing \in [Joints -> RotationOrNone]
      BY DEF Nothing, RotationOrNone
    <2>2. 0 \in Times /\ MaxHold \in Nat /\ ResetGap \in Nat
      BY EstimatorAssumption DEF Times
    <2> QED
      BY <2>1, <2>2 DEF Init, TypeOK
  <1> QED
    BY <1>1, StepType, PTL DEF Spec

-----------------------------------------------------------------------------
(* Rotations that are sent *)

\* What a frame leaves, joint by joint, is presence within the hold window.
LEMMA UpdatePresence ==
    ASSUME TypeOK, NEW t \in Times, NEW frame \in Frames,
           NEW weight \in [Joints -> Weights], Update(t, frame, weight)
    PROVE  PresentWithinHold'
  <1>1. TypeOK'
    BY UpdateType
  <1> SUFFICES ASSUME NEW j \in Joints
               PROVE  /\ global'[j] # None <=>
                           \/ Locked(j)'
                           \/ lastOut'[j] # None /\ now' - lastSeen'[j] <= maxHold'
                      /\ local'[j] # None <=> global'[j] # None /\ global'[Parent[j]] # None
    BY DEF PresentWithinHold
  <1>2. Locked(j)' <=> Locked(j)
    BY DEF Update, options, Locked, IsRoot
  <1>3. global'[j] = IF Locked(j) THEN rest[j]
                     ELSE IF Present(frame, j, t) THEN lastOut'[j] ELSE None
    BY DEF Update
  <1>4. global'[j] # None <=>
           \/ Locked(j)'
           \/ lastOut'[j] # None /\ now' - lastSeen'[j] <= maxHold'
    <2>1. CASE Locked(j)
      BY <1>2, <1>3, <2>1 DEF Locked
    <2>2. CASE ~Locked(j) /\ Shown(frame, j)
      <3>1. lastOut'[j] \in Rotations /\ lastSeen'[j] = t /\ now' = t
        <4>1. j \in Sampled(frame)
          BY <2>2 DEF Sampled
        <4>2. Smoothed(frame, j, t, weight[j]) \in Rotations
          BY <2>2, SmoothedType
        <4> QED
          BY <4>1, <4>2 DEF Update
      <3>2. t - t <= maxHold' /\ maxHold' = maxHold
        BY TimesAreNat DEF TypeOK, Update, options
      <3>3. lastOut'[j] # None
        BY <3>1, RotationsAreAGroup
      <3> QED
        BY <1>3, <2>2, <3>1, <3>2, <3>3 DEF Present
    <2>3. CASE ~Locked(j) /\ ~Shown(frame, j)
      <3>1. /\ lastOut'[j] = lastOut[j] /\ lastSeen'[j] = lastSeen[j] /\ now' = t
            /\ maxHold' = maxHold
        BY <2>3 DEF Update, Sampled, options
      <3> QED
        BY <1>2, <1>3, <2>3, <3>1, Zenon DEF Present, Held
    <2> QED
      BY <2>1, <2>2, <2>3
  <1>5. local'[j] # None <=> global'[j] # None /\ global'[Parent[j]] # None
    <2>1. local'[j] = Local(global', j)
      BY DEF Update
    <2>2. global' \in [Joints -> RotationOrNone]
      BY <1>1 DEF TypeOK, RotationOrNone
    <2>3. local'[j] # None <=> Relative(global', j) # None
      BY <2>1, <2>2, SentType
    <2>4. CASE IsRoot(j)
      BY <2>3, <2>4 DEF Relative, IsRoot
    <2>5. CASE ~IsRoot(j) /\ global'[j] # None /\ global'[Parent[j]] # None
      <3>1. global'[j] \in Rotations /\ global'[Parent[j]] \in Rotations
        BY <2>2, <2>5, EstimatorAssumption DEF RotationOrNone
      <3>2. Conjugate(global'[Parent[j]]) ** global'[j] \in Rotations
        BY <3>1, RotationsAreAGroup
      <3> QED
        BY <2>3, <2>5, <3>2, RotationsAreAGroup DEF Relative
    <2>6. CASE ~IsRoot(j) /\ (global'[j] = None \/ global'[Parent[j]] = None)
      BY <2>3, <2>6 DEF Relative
    <2> QED
      BY <2>4, <2>5, <2>6
  <1> QED
    BY <1>4, <1>5

\* What a frame sends of a joint agrees with the rest pose.
LEMMA UpdateAgreement ==
    ASSUME TypeOK, NEW t \in Times, NEW frame \in Frames,
           NEW weight \in [Joints -> Weights], Update(t, frame, weight)
    PROVE  RotationsAgree'
  <1>1. global' \in [Joints -> RotationOrNone]
    BY UpdateType DEF TypeOK, RotationOrNone
  <1> SUFFICES ASSUME NEW j \in Joints
               PROVE  /\ local'[j] = None <=> anim'[j] = None
                      /\ local'[j] # None =>
                           local'[j] = IF rest'[j] = None THEN anim'[j] ELSE rest'[j] ** anim'[j]
    BY DEF RotationsAgree
  <1> DEFINE r == Relative(global', j)
  <1>2. local'[j] = Local(global', j) /\ anim'[j] = Anim(global', j) /\ rest' = rest
    BY DEF Update
  <1>3. /\ local'[j] = None <=> r = None
        /\ anim'[j] = None <=> r = None
    BY <1>1, <1>2, SentType
  <1>4. ASSUME r # None
        PROVE  local'[j] = IF rest[j] = None THEN anim'[j] ELSE rest[j] ** anim'[j]
    <2>1. r \in Rotations
      BY <1>1, <1>4, SentType DEF RotationOrNone
    <2>2. anim'[j] = FromRest(r, j)
      BY <1>2, <1>4 DEF Anim
    <2>3. local'[j] = IF Hinged(j) THEN rest[j] ** FromRest(r, j) ELSE r
      BY <1>2, <1>4 DEF Local
    <2>4. CASE rest[j] = None
      BY <2>2, <2>3, <2>4 DEF FromRest, Hinged, Locked
    <2>5. CASE rest[j] # None /\ Hinged(j)
      BY <2>2, <2>3, <2>5
    <2>6. CASE rest[j] # None /\ ~Hinged(j)
      <3>1. rest[j] \in Rotations
        BY <2>6 DEF TypeOK, RotationOrNone
      <3>2. CASE Locked(j)
        <4>1. r = rest[j]
          BY <3>2 DEF Relative, Locked, Update
        <4>2. FromRest(r, j) = Identity
          BY <3>2 DEF FromRest
        <4>3. rest[j] ** Identity = rest[j]
          BY <3>1, RotationsAreAGroup
        <4> QED
          BY <2>2, <2>3, <2>6, <4>1, <4>2, <4>3
      <3>3. CASE ~Locked(j)
        <4>1. FromRest(r, j) = Conjugate(rest[j]) ** r
          BY <2>6, <3>3 DEF FromRest
        <4>2. rest[j] ** (Conjugate(rest[j]) ** r) = r
          BY <2>1, <3>1, Cancel
        <4> QED
          BY <2>2, <2>3, <2>6, <4>1, <4>2
      <3> QED
        BY <3>2, <3>3
    <2> QED
      BY <2>4, <2>5, <2>6
  <1> QED
    BY <1>2, <1>3, <1>4

\* A step is a frame, or makes what was sent stale, or changes nothing.
LEMMA StepKinds ==
    [Next]_vars =>
        \/ \E t \in Times, frame \in Frames, weight \in [Joints -> Weights] :
              Update(t, frame, weight)
        \/ ~current'
        \/ UNCHANGED vars
  BY DEF Next, CalibrateRestPose, ClearRestPose, SetOptions

\* A joint and its children are there exactly within the hold window: an
\* occlusion shorter than it never cascades, and a longer one does.
THEOREM PresenceHolds == Spec => []PresentWithinHold
  <1>1. Init => PresentWithinHold
    BY DEF Init, PresentWithinHold
  <1>2. TypeOK /\ PresentWithinHold /\ [Next]_vars => PresentWithinHold'
    <2> SUFFICES ASSUME TypeOK, PresentWithinHold, [Next]_vars
                 PROVE  PresentWithinHold'
      OBVIOUS
    <2>1. ASSUME NEW t \in Times, NEW frame \in Frames, NEW weight \in [Joints -> Weights],
                 Update(t, frame, weight)
          PROVE  PresentWithinHold'
      BY <2>1, UpdatePresence
    <2>2. CASE ~current'
      BY <2>2 DEF PresentWithinHold
    <2>3. CASE UNCHANGED vars
      BY <2>3 DEF PresentWithinHold, Locked, IsRoot, vars, options, trackVars, outputs
    <2> QED
      BY <2>1, <2>2, <2>3, StepKinds
  <1> QED
    BY <1>1, <1>2, Typing, PTL DEF Spec

\* What is sent agrees with the rest pose, with and without the constraint.
THEOREM AgreementHolds == Spec => []RotationsAgree
  <1>1. Init => RotationsAgree
    BY DEF Init, RotationsAgree
  <1>2. TypeOK /\ RotationsAgree /\ [Next]_vars => RotationsAgree'
    <2> SUFFICES ASSUME TypeOK, RotationsAgree, [Next]_vars
                 PROVE  RotationsAgree'
      OBVIOUS
    <2>1. ASSUME NEW t \in Times, NEW frame \in Frames, NEW weight \in [Joints -> Weights],
                 Update(t, frame, weight)
          PROVE  RotationsAgree'
      BY <2>1, UpdateAgreement
    <2>2. CASE ~current'
      BY <2>2 DEF RotationsAgree
    <2>3. CASE UNCHANGED vars
      BY <2>3 DEF RotationsAgree, vars, outputs
    <2> QED
      BY <2>1, <2>2, <2>3, StepKinds
  <1> QED
    BY <1>1, <1>2, Typing, PTL DEF Spec

-----------------------------------------------------------------------------
(* Calibration *)

\* A local rotation that was sent is the relative one, or its constrained form
\* over some earlier rest rotation.
SentFrom(j) ==
    \/ local[j] = Relative(global, j)
    \/ /\ ~IsRoot(j) /\ Relative(global, j) \in Rotations
       /\ \E r \in Rotations :
             local[j] = r ** Twist(Conjugate(r) ** Relative(global, j))

\* The rest pose is what was sent when it was captured, and stale until a frame.
RestInv ==
    /\ \A j \in Joints : SentFrom(j)
    /\ captured => /\ ~current
                   /\ \A j \in Joints : rest[j] # None => rest[j] = local[j]

\* A frame sends what it may, and ends the capture.
LEMMA UpdateRest ==
    ASSUME TypeOK, NEW t \in Times, NEW frame \in Frames,
           NEW weight \in [Joints -> Weights], Update(t, frame, weight)
    PROVE  RestInv'
  <1>1. global' \in [Joints -> RotationOrNone] /\ ~captured'
    <2>1. TypeOK'
      BY UpdateType
    <2>2. captured' = FALSE
      BY Zenon DEF Update
    <2> QED BY <2>1, <2>2, Zenon DEF TypeOK
  <1>2. ASSUME NEW j \in Joints
        PROVE  SentFrom(j)'
    <2> DEFINE r == Relative(global', j)
    <2>1. local'[j] = Local(global', j)
      BY DEF Update
    <2>2. CASE r # None /\ Hinged(j)
      <3>1. r \in Rotations
        BY <1>1, <2>2, SentType DEF RotationOrNone
      <3>2. rest[j] \in Rotations
        BY <2>2 DEF Hinged, TypeOK, RotationOrNone
      <3>3. FromRest(r, j) = Twist(Conjugate(rest[j]) ** r)
        BY <2>2 DEF FromRest, Hinged, Locked
      <3>4. local'[j] = rest[j] ** Twist(Conjugate(rest[j]) ** r)
        BY <2>1, <2>2, <3>3 DEF Local
      <3>5. ~IsRoot(j)
        BY <2>2 DEF Hinged
      <3> QED
        BY <3>1, <3>2, <3>4, <3>5 DEF SentFrom, Relative, IsRoot
    <2>3. CASE ~(r # None /\ Hinged(j))
      <3>1. local'[j] = r
        BY <2>1, <2>3 DEF Local
      <3> QED
        BY <3>1 DEF SentFrom, Relative, IsRoot
    <2> QED
      BY <2>2, <2>3
  <1> QED
    BY <1>1, <1>2 DEF RestInv

\* Every step keeps the relation of the rest pose to what was sent.
LEMMA StepRest == TypeOK /\ RestInv /\ [Next]_vars => RestInv'
  <1> SUFFICES ASSUME TypeOK, RestInv, [Next]_vars
               PROVE  RestInv'
    OBVIOUS
  <1>1. ASSUME NEW t \in Times, NEW frame \in Frames, NEW weight \in [Joints -> Weights],
               Update(t, frame, weight)
        PROVE  RestInv'
    BY <1>1, UpdateRest
  <1>2. ASSUME UNCHANGED outputs
        PROVE  \A j \in Joints : SentFrom(j)'
    BY <1>2 DEF RestInv, SentFrom, Relative, IsRoot, outputs
  <1>3. CASE CalibrateRestPose
    <2>1. \A j \in Joints : rest'[j] # None => rest'[j] = local'[j]
      BY <1>3 DEF CalibrateRestPose, outputs
    <2> QED
      BY <1>2, <1>3, <2>1 DEF RestInv, CalibrateRestPose
  <1>4. CASE ClearRestPose
    BY <1>2, <1>4 DEF RestInv, ClearRestPose
  <1>5. ASSUME NEW o \in Options, SetOptions(o[1], o[2], o[3], o[4])
        PROVE  RestInv'
    BY <1>2, <1>5 DEF RestInv, SetOptions, outputs
  <1>6. CASE UNCHANGED vars
    BY <1>2, <1>6 DEF RestInv, vars, outputs
  <1> QED
    BY <1>1, <1>3, <1>4, <1>5, <1>6 DEF Next

\* With the constraint on, a joint whose global rotation and whose parent's are
\* those of the capture is neutral in the next frame.
LEMMA StepNeutral ==
    ASSUME TypeOK, RestInv, NEW t \in Times, NEW frame \in Frames,
           NEW weight \in [Joints -> Weights], Update(t, frame, weight),
           captured, NEW j \in Joints, hinge, rest[j] # None,
           global'[j] = global[j], global'[Parent[j]] = global[Parent[j]]
    PROVE  anim'[j] = Identity
  <1> DEFINE x == Relative(global, j)
  <1>1. Relative(global', j) = x
    BY DEF Relative
  <1>2. anim'[j] = Anim(global', j)
    BY DEF Update
  <1>3. rest[j] = local[j] /\ rest[j] \in Rotations
    BY DEF RestInv, TypeOK, RotationOrNone
  <1>4. x \in Rotations
    <2>1. x \in RotationOrNone
      BY SentType DEF TypeOK, RotationOrNone
    <2>2. SentFrom(j) /\ local[j] # None
      BY <1>3 DEF RestInv
    <2> QED
      BY <2>1, <2>2 DEF SentFrom, RotationOrNone
  <1>5. anim'[j] = FromRest(x, j)
    BY <1>1, <1>2, <1>4, RotationsAreAGroup DEF Anim
  <1>6. CASE IsRoot(j)
    BY <1>5, <1>6 DEF FromRest, Locked
  <1>7. CASE ~IsRoot(j)
    <2>1. anim'[j] = Twist(Conjugate(rest[j]) ** x)
      BY <1>5, <1>7 DEF FromRest, Locked, Hinged
    <2>2. CASE rest[j] = x
      <3>1. Conjugate(x) ** x = Identity
        BY <1>4, RotationsAreAGroup
      <3> QED
        BY <2>1, <2>2, <3>1, TwistIsRemovable
    <2>3. ASSUME NEW r \in Rotations,
                 rest[j] = r ** Twist(Conjugate(r) ** x)
          PROVE  anim'[j] = Identity
      BY <1>4, <2>1, <2>3, ConstrainedIsNeutral
    <2> QED
      BY <1>3, <2>2, <2>3 DEF RestInv, SentFrom
  <1> QED
    BY <1>6, <1>7

\* Calibrating in a stance makes that stance neutral, whatever rest pose and
\* constraint there were before.
THEOREM NeutralHolds == Spec => RestIsNeutral
  <1>1. Init => RestInv
    <2>1. Init => \A j \in Joints : SentFrom(j)
      BY EstimatorAssumption DEF Init, SentFrom, Relative, Nothing
    <2> QED
      BY <2>1 DEF Init, RestInv
  <1>2. TypeOK /\ RestInv /\ [Next]_vars =>
            [captured /\ current' => \A j \in Joints :
                /\ hinge /\ rest[j] # None
                /\ global'[j] = global[j]
                /\ global'[Parent[j]] = global[Parent[j]]
                => anim'[j] = Identity]_vars
    <2> SUFFICES ASSUME TypeOK, RestInv, Next, captured, current',
                        NEW j \in Joints, hinge, rest[j] # None,
                        global'[j] = global[j],
                        global'[Parent[j]] = global[Parent[j]]
                 PROVE  anim'[j] = Identity
      OBVIOUS
    <2>1. PICK t \in Times, frame \in Frames, weight \in [Joints -> Weights] :
                 Update(t, frame, weight)
      BY DEF Next, CalibrateRestPose, ClearRestPose, SetOptions
    <2> QED
      BY <2>1, StepNeutral
  <1>3. Spec => []RestInv
    BY <1>1, StepRest, Typing, PTL DEF Spec
  <1> QED
    BY <1>2, <1>3, Typing, PTL DEF Spec, RestIsNeutral

-----------------------------------------------------------------------------
(* Flips *)

\* Of a joint that is guided by a track in its range, a candidate in it is selected.
LEMMA SelectedInRange ==
    ASSUME TypeOK, NEW frame \in Frames, NEW j \in Joints, NEW t \in Times,
           Shown(frame, j), Guided(frame, j, t), lastOut[j] \in Ranges[j]
    PROVE  Selected(frame, j, t) \in Ranges[j]
  <1> DEFINE c == frame[j].candidates
             R == Ranges[j]
             q == lastOut[j]
             second == /\ Len(c) = 2 /\ frame[j].nearTie
                       /\ Distance(q, c[2]) < Distance(q, c[1])
  <1>1. Selected(frame, j, t) = IF second THEN c[2] ELSE c[1]
    BY DEF Selected
  <1>2. /\ c \in Seq(Rotations) /\ (Len(c) = 1 \/ Len(c) = 2) /\ DOMAIN c = 1..Len(c)
        /\ R \subseteq Rotations
    <2>1. c \in Seq(Rotations) /\ Len(c) <= 2 /\ c # <<>>
      BY FrameView DEF Shown
    <2>2. R \subseteq Rotations
      BY RangesExcludeFlips
    <2>3. Len(c) \in Nat /\ Len(c) # 0 /\ DOMAIN c = 1..Len(c)
      BY ONLY <2>1
    <2>4. Len(c) = 1 \/ Len(c) = 2
      <3>1. Len(c) <= 2
        BY <2>1
      <3>2. ASSUME NEW n \in Nat, n # 0, n <= 2 PROVE n = 1 \/ n = 2
        BY ONLY <3>2
      <3> QED
        BY ONLY <2>3, <3>1, <3>2
    <2> QED
      BY ONLY <2>1, <2>2, <2>3, <2>4
  <1>3. \A k \in DOMAIN c : Distance(q, c[k]) \in Nat
    <2>1. q \in Rotations
      BY <1>2
    <2>2. \A k \in DOMAIN c : c[k] \in Rotations
      BY <1>2
    <2> QED
      BY <2>1, <2>2, RangesExcludeFlips
  <1>4. PICK i \in DOMAIN c :
           /\ c[i] \in R
           /\ i # 1 => frame[j].nearTie
           /\ \A k \in DOMAIN c : c[k] \notin R => Distance(q, c[i]) < Distance(q, c[k])
    <2>1. frame[j] \in Views[j] /\ c # <<>>
      BY DEF Frames, Shown
    <2> QED
      BY <2>1, RangesExcludeFlips
  <1> HIDE DEF c, R, q
  <1>5. CASE i = 1
    <2>1. second => c[2] \in R
      BY <1>2, <1>3, <1>4, <1>5
    <2> QED
      BY <1>1, <1>4, <1>5, <2>1 DEF R
  <1>6. CASE i = 2
    <2>1. Len(c) = 2 /\ frame[j].nearTie
      BY <1>2, <1>4, <1>6
    <2>2. c[1] \in R \/ second
      BY <1>2, <1>4, <1>6, <2>1
    <2> QED
      BY <1>1, <1>4, <1>6, <2>2 DEF R
  <1> QED
    BY <1>2, <1>4, <1>5, <1>6

\* A frame leaves a track in its range, if the joint has a rest pose and its parent
\* is there.
LEMMA UpdateKeepsTrack ==
    ASSUME TypeOK, NEW t \in Times, NEW frame \in Frames,
           NEW weight \in [Joints -> Weights], Update(t, frame, weight),
           NEW j \in Joints, hinge, rest[j] # None, global'[Parent[j]] # None,
           lastOut[j] \in Ranges[j]
    PROVE  lastOut'[j] \in Ranges[j]
  <1>1. lastOut'[j] = IF j \in Sampled(frame)
                      THEN Smoothed(frame, j, t, weight[j]) ELSE lastOut[j]
    BY DEF Update
  <1>2. CASE j \notin Sampled(frame)
    BY <1>1, <1>2
  <1>3. CASE j \in Sampled(frame)
    <2>1. Shown(frame, j) /\ ~IsRoot(j)
      BY <1>3 DEF Sampled, Locked
    <2>2. Present(frame, Parent[j], t)
      <3>1. Parent[j] \in Joints
        BY EstimatorAssumption
      <3>2. global'[Parent[j]] = IF Locked(Parent[j]) THEN rest[Parent[j]]
                                 ELSE IF Present(frame, Parent[j], t) THEN lastOut'[Parent[j]]
                                 ELSE None
        BY <3>1 DEF Update
      <3> QED
        BY <3>2 DEF Present
    <2>3. lastOut[j] # None
      BY RangesExcludeFlips, RotationsAreAGroup
    <2>4. Selected(frame, j, t) \in Ranges[j]
      <3>1. Guided(frame, j, t)
        BY <2>2, <2>3 DEF Guided
      <3> QED
        BY <2>1, <3>1, SelectedInRange
    <2>5. Smoothed(frame, j, t, weight[j]) \in Ranges[j]
      <3>1. weight[j] \in Weights
        OBVIOUS
      <3>2. Slerp(lastOut[j], Selected(frame, j, t), weight[j]) \in Ranges[j]
        BY <2>4, <3>1, RangesExcludeFlips
      <3> QED
        BY <2>4, <3>2 DEF Smoothed
    <2> QED
      BY <1>1, <1>3, <2>5
  <1> QED
    BY <1>2, <1>3

\* exo_pose_estimator.cc:229: the selection by the last output holds a joint on its track
\* in near-tied frames, after a gap of any length too, whatever the rotations among which
\* the joint moves, if the flips of its tag are further away.
THEOREM TracksAreKept == Spec => TrackIsKept
  <1>1. TypeOK /\ [Next]_vars =>
            [\A j \in Joints :
                /\ hinge /\ rest[j] # None
                /\ global'[Parent[j]] # None
                /\ lastOut[j] \in Ranges[j]
                => lastOut'[j] \in Ranges[j]]_vars
    <2> SUFFICES ASSUME TypeOK, Next, NEW j \in Joints, hinge, rest[j] # None,
                        global'[Parent[j]] # None, lastOut[j] \in Ranges[j]
                 PROVE  lastOut'[j] \in Ranges[j]
      OBVIOUS
    <2>1. ASSUME NEW t \in Times, NEW frame \in Frames, NEW weight \in [Joints -> Weights],
                 Update(t, frame, weight)
          PROVE  lastOut'[j] \in Ranges[j]
      BY <2>1, UpdateKeepsTrack
    <2>2. CASE UNCHANGED trackVars
      BY <2>2 DEF trackVars
    <2> QED
      BY <2>1, <2>2 DEF Next, CalibrateRestPose, ClearRestPose, SetOptions
  <1> QED
    BY <1>1, Typing, PTL DEF Spec, TrackIsKept

-----------------------------------------------------------------------------
(* Lost joints *)

\* What LostStaysLost promises, of frames whose time does not go back while the hold
\* time stays: the run that finds it violated needs a recording that is repeated or sought.
LostUntilTimeGoesBack ==
    [][current /\ now <= now' => \A j \in Joints :
          global[j] = None /\ j \notin detected' /\ ~Locked(j)' => global'[j] = None]_vars

\* What a frame makes of a joint that it does not show and that has no fixed base.
LEMMA UpdateUnseen ==
    ASSUME TypeOK, NEW t \in Times, NEW frame \in Frames,
           NEW weight \in [Joints -> Weights], Update(t, frame, weight),
           NEW j \in Joints, ~Locked(j), ~Shown(frame, j)
    PROVE  now' = t /\ global'[j] = IF Held(j, t) THEN lastOut[j] ELSE None
  <1>1. lastOut'[j] = lastOut[j] /\ now' = t
    BY DEF Update, Sampled
  <1>2. global'[j] = IF Held(j, t) THEN lastOut'[j] ELSE None
    BY DEF Update, Present
  <1> QED
    BY <1>1, <1>2

\* exo_pose_estimator.cc:197: a joint that is lost, and neither seen nor locked, is held
\* again only after the timeline went back or the hold time was edited.
THEOREM LostWithTime == Spec => LostUntilTimeGoesBack
  <1>1. TypeOK /\ PresentWithinHold /\ [Next]_vars =>
            [current /\ now <= now' => \A j \in Joints :
                global[j] = None /\ j \notin detected' /\ ~Locked(j)' => global'[j] = None]_vars
    <2> SUFFICES ASSUME TypeOK, PresentWithinHold, Next, current, now <= now',
                        NEW j \in Joints, global[j] = None, j \notin detected', ~Locked(j)'
                 PROVE  global'[j] = None
      OBVIOUS
    <2>1. ASSUME NEW t \in Times, NEW frame \in Frames, NEW weight \in [Joints -> Weights],
                 Update(t, frame, weight)
          PROVE  global'[j] = None
      <3>1. ~Locked(j) /\ ~Shown(frame, j)
        BY <2>1 DEF Update, Locked, IsRoot, options
      <3>2. now' = t /\ global'[j] = IF Held(j, t) THEN lastOut[j] ELSE None
        BY <2>1, <3>1, UpdateUnseen
      <3>3. /\ now \in Nat /\ t \in Nat /\ lastSeen[j] \in Nat /\ maxHold \in Nat /\ now <= t
        BY <3>2, TimesAreNat DEF TypeOK
      <3>4. lastOut[j] = None \/ ~(now - lastSeen[j] <= maxHold)
        BY DEF PresentWithinHold
      <3>5. ~Held(j, t)
        BY <3>3, <3>4 DEF Held
      <3> QED
        BY <3>2, <3>5
    <2>2. CASE UNCHANGED outputs
      BY <2>2 DEF outputs
    <2> QED
      BY <2>1, <2>2 DEF Next, CalibrateRestPose, ClearRestPose, SetOptions
  <1> QED
    BY <1>1, PresenceHolds, Typing, PTL DEF Spec, LostUntilTimeGoesBack
=============================================================================
