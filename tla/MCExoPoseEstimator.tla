------------------------- MODULE MCExoPoseEstimator -------------------------
(***************************************************************************)
(* An instance of ExoPoseEstimator: a pelvis and a knee on a body that       *)
(* stands still.  Its rotations are those of a cube, a finite subgroup of    *)
(* the rotations that is closed under twisting about x.                      *)
(***************************************************************************)
EXTENDS ExoPoseEstimator, FiniteSets

\* A quaternion <<w, x, y, z>> of entries -1, 0, 1 stands for the rotation it is
\* a multiple of; the first entry that is not zero is positive.
Entries(q) == Cardinality({i \in 1..4 : q[i] # 0})

Normal(q) ==
    LET leading == q[CHOOSE i \in 1..4 : q[i] # 0 /\ \A h \in 1..(i-1) : q[h] = 0]
    IN  [i \in 1..4 |-> CASE q[i] = 0 -> 0 [] q[i] = leading -> 1 [] OTHER -> -1]

\* Of one, two or four entries: by 180 about an axis or 90 or 180 or 120 degrees.
CubeRotations ==
    {q \in [1..4 -> {-1, 0, 1}] :
        /\ Entries(q) \in {1, 2, 4}
        /\ Normal(q) = q}

CubeIdentity == <<1, 0, 0, 0>>

Hamilton(p, q) ==
    Normal(<<p[1]*q[1] - p[2]*q[2] - p[3]*q[3] - p[4]*q[4],
             p[1]*q[2] + p[2]*q[1] + p[3]*q[4] - p[4]*q[3],
             p[1]*q[3] - p[2]*q[4] + p[3]*q[1] + p[4]*q[2],
             p[1]*q[4] + p[2]*q[3] - p[3]*q[2] + p[4]*q[1]>>)

Vector(q, x, y, z) == Normal(<<q[1], x * q[2], y * q[3], z * q[4]>>)

Degrees(q) ==
    IF q[1] = 0 THEN 180 ELSE CASE Entries(q) = 1 -> 0 [] Entries(q) = 2 -> 90 [] OTHER -> 120

Cubes == CubeRotations \X CubeRotations

\* The operations as tables, which TLC looks up.
ProductOf == [c \in Cubes |-> Hamilton(c[1], c[2])]
Inverse   == [q \in CubeRotations |-> Vector(q, -1, -1, -1)]
Angles    == [c \in Cubes |-> Degrees(ProductOf[Inverse[c[1]], c[2]])]

\* About the x axis; a half turn about an axis orthogonal to it has none.
Twists ==
    [q \in CubeRotations |-> IF q[1] = 0 /\ q[2] = 0 THEN CubeIdentity ELSE Vector(q, 1, 0, 0)]

\* Half way, where that is a rotation of the cube, or the whole way.
Midpoints ==
    [c \in Cubes |->
        LET turn == ProductOf[Inverse[c[1]], c[2]]
        IN  IF turn[1] = 0 /\ Entries(turn) = 1
            THEN ProductOf[c[1], Normal([turn EXCEPT ![1] = 1])]
            ELSE c[2]]

ASSUME TheCubeIsClosed ==
    /\ ProductOf \in [Cubes -> CubeRotations]
    /\ Midpoints \in [Cubes -> CubeRotations]
    /\ Inverse \in [CubeRotations -> CubeRotations]
    /\ Twists \in [CubeRotations -> CubeRotations]
    /\ Angles \in [Cubes -> {0, 90, 120, 180}]

Product(p, q)         == ProductOf[p, q]
Inverted(q)           == Inverse[q]
TwistAboutX(q)        == Twists[q]
Angle(p, q)           == Angles[p, q]
Interpolated(p, q, w) == Midpoints[p, q]

-----------------------------------------------------------------------------
Upright == CubeIdentity
Leaning == <<1, 0, 0, 1>>
Swung   == <<1, 0, 1, 0>>      \* with an error off the hinge axis
Flip(q) == Product(q, <<0, 1, 0, 0>>)

Hidden        == [candidates |-> <<>>, nearTie |-> FALSE]
Alone(q)      == [candidates |-> <<q>>, nearTie |-> FALSE]
Decisive(q)   == [candidates |-> <<q, Flip(q)>>, nearTie |-> FALSE]
FlippedTie(q) == [candidates |-> <<Flip(q), q>>, nearTie |-> TRUE]

\* Both switches on or off, with times that nobody edits or with others.
BothOrNeither == {<<b, b, MaxHold, ResetGap>> : b \in BOOLEAN}
Edited        == BothOrNeither \cup {<<TRUE, TRUE, 0, 2>>}

Skeleton == [j \in {"pelvis", "knee"} |-> "pelvis"]

StillBody ==
    [j \in {"pelvis", "knee"} |->
        IF j = "pelvis" THEN {Hidden, Alone(Leaning)}
        ELSE {Hidden, Decisive(Upright), FlippedTie(Upright), FlippedTie(Swung)}]

\* What is seen of a joint when its tag is not flipped.
StillRanges == [j \in {"pelvis", "knee"} |-> IF j = "pelvis" THEN {Leaning} ELSE {Upright, Swung}]
=============================================================================
