------------------------------ MODULE ImageEditor ------------------------------
(***************************************************************************)
(* The crop editor (components/media/image-editor.tsx): a picture shown    *)
(* under a frame, scaled, moved and turned in quarters.  Lengths are whole *)
(* numbers and scales are fractions <<numerator, denominator>>; a gesture  *)
(* asks for any of a few scales or places, and the code clamps it.  The    *)
(* fine angle is left at zero.                                             *)
(***************************************************************************)
EXTENDS Integers

CONSTANTS Pictures,   \* sizes of the pictures opened
          Frames,     \* sizes a frame can be given
          Far         \* a drag longer than every picture

Size == [w : Nat \ {0}, h : Nat \ {0}]

VARIABLES natural, cropBox, scale, minScale, offset, coarseSteps, editorOpen

editorVars == <<natural, cropBox, scale, minScale, offset, coarseSteps, editorOpen>>

(***************************************************************************)
(* Fractions with positive denominators.                                   *)
(***************************************************************************)
Le(a, b) == a[1] * b[2] <= b[1] * a[2]
Least(a, b) == IF Le(a, b) THEN a ELSE b
Greatest(a, b) == IF Le(a, b) THEN b ELSE a
Times(n, a) == <<n * a[1], a[2]>>
Minus(a) == <<-a[1], a[2]>>
Zero == <<0, 1>>
Centre == [x |-> Zero, y |-> Zero]

(***************************************************************************)
(* The scales of the editor.                                               *)
(***************************************************************************)

\* The picture's sides on screen after the quarter turns.
Shown(pic, steps) == IF steps % 2 = 0 THEN pic ELSE [w |-> pic.h, h |-> pic.w]

\* The frame's sides against the picture's.  For an odd number of turns both
\* are swapped: the sines swap the frame's, rw and rh the picture's.
Ratios(box, pic, steps) ==
    IF steps % 2 = 0 THEN <<<<box.w, pic.w>>, <<box.h, pic.h>>>>
                     ELSE <<<<box.h, pic.h>>, <<box.w, pic.w>>>>

computeContainScale(box, pic, steps) ==
    LET r == Ratios(box, pic, steps) IN Least(r[1], r[2])

computeCoverScale(box, pic, steps) ==
    LET r == Ratios(box, pic, steps) IN Greatest(r[1], r[2])

\* Faulty variant: the picture may not become smaller than the frame.
computeMinScaleForCover(box, pic, steps) == computeCoverScale(box, pic, steps)

computeMinScaleFor(box, pic, steps) ==
    LET contain == computeContainScale(box, pic, steps)
    IN Least(computeCoverScale(box, pic, steps), <<19 * contain[1], 20 * contain[2]>>)

\* How far the picture may be moved off the centre of the frame.
Slack(side, frame, s) ==
    Greatest(Zero, <<side * s[1] - frame * s[2], 2 * s[2]>>)

Clamp(v, bound) == Least(bound, Greatest(Minus(bound), v))

\* Faulty variant: a move is not clamped.
clampOffsetFree(o, box, s, steps) == o

clampOffset(o, box, s, steps) ==
    LET pic == Shown(natural, steps)
    IN [x |-> Clamp(o.x, Slack(pic.w, box.w, s)), y |-> Clamp(o.y, Slack(pic.h, box.h, s))]

(***************************************************************************)
(* Steps.                                                                  *)
(***************************************************************************)

Fraction(a) == a[1] \in Int /\ a[2] \in Nat \ {0}

TypeOK ==
    /\ natural \in Pictures /\ cropBox \in Size
    /\ Fraction(scale) /\ Fraction(minScale) /\ Fraction(offset.x) /\ Fraction(offset.y)
    /\ coarseSteps \in 0 .. 3 /\ editorOpen \in BOOLEAN

Fitted(box, pic) ==
    LET fit == computeContainScale(box, pic, 0)
    IN [scale |-> fit, min |-> Least(computeMinScaleFor(box, pic, 0), fit)]

\* onImgLoad: the whole picture in the frame of its document type.
Init ==
    /\ natural \in Pictures /\ cropBox \in Frames
    /\ scale = Fitted(cropBox, natural).scale
    /\ minScale = Fitted(cropBox, natural).min
    /\ offset = Centre /\ coarseSteps = 0 /\ editorOpen = TRUE

\* "Fit": the frame takes the proportions of the turned picture.
fitFullDocument ==
    /\ \E box \in {Shown(natural, coarseSteps)} :
        /\ cropBox' = box
        /\ scale' = computeCoverScale(box, natural, coarseSteps)
        /\ minScale' = computeMinScaleFor(box, natural, coarseSteps)
    /\ offset' = Centre
    /\ UNCHANGED <<natural, coarseSteps>>

\* A pointer drags the picture.
Drag ==
    /\ \E dx, dy \in {-Far, 0, Far} :
        offset' = clampOffset([x |-> <<dx, 1>>, y |-> <<dy, 1>>], cropBox, scale, coarseSteps)
    /\ UNCHANGED <<natural, cropBox, scale, minScale, coarseSteps>>

\* Two fingers or the wheel: between the least scale and five times that.
Zoom ==
    /\ \E n \in {1, 2, 5} :
        /\ scale' = Times(n, minScale)
        /\ offset' = clampOffset(offset, cropBox, Times(n, minScale), coarseSteps)
    /\ UNCHANGED <<natural, cropBox, minScale, coarseSteps>>

\* A corner of the frame is dragged.
ResizeFrame ==
    /\ \E box \in Frames :
        LET min == computeMinScaleFor(box, natural, coarseSteps)
            s == Greatest(scale, min)
        IN  /\ cropBox' = box /\ minScale' = min /\ scale' = s
            /\ offset' = clampOffset(offset, box, s, coarseSteps)
    /\ UNCHANGED <<natural, coarseSteps>>

rotate90(dir) ==
    /\ coarseSteps' = (coarseSteps + dir + 4) % 4
    /\ minScale' = computeMinScaleFor(cropBox, natural, coarseSteps')
    /\ scale' = Greatest(scale, minScale')
    /\ offset' = Centre
    /\ UNCHANGED <<natural, cropBox>>

reset ==
    /\ coarseSteps # 0
    /\ coarseSteps' = 0
    /\ minScale' = computeMinScaleFor(cropBox, natural, 0)
    /\ scale' = minScale'
    /\ offset' = Centre
    /\ UNCHANGED <<natural, cropBox>>

\* Cancelled, or confirmed: what is under the frame is drawn and returned.
Close == editorOpen' = FALSE /\ UNCHANGED <<natural, cropBox, scale, minScale, offset, coarseSteps>>

Next ==
    /\ editorOpen
    /\ \/ /\ fitFullDocument \/ Drag \/ Zoom \/ ResizeFrame \/ reset
             \/ \E dir \in {-1, 1} : rotate90(dir)
          /\ UNCHANGED editorOpen
       \/ Close

Spec == Init /\ [][Next]_editorVars

(***************************************************************************)
(* Properties.                                                             *)
(***************************************************************************)

\* After any sequence of gestures the picture still covers the middle of the
\* frame: it is never smaller than the least scale, and where it is larger
\* than the frame no edge of it is dragged inside (image-editor.tsx:348, 434).
FrameKept ==
    LET pic == Shown(natural, coarseSteps)
    IN  /\ Le(minScale, scale)
        /\ \A o \in {offset.x, Minus(offset.x)} : Le(o, Slack(pic.w, cropBox.w, scale))
        /\ \A o \in {offset.y, Minus(offset.y)} : Le(o, Slack(pic.h, cropBox.h, scale))

WholeFits(s) ==
    LET pic == Shown(natural, coarseSteps)
    IN pic.w * s[1] <= cropBox.w * s[2] /\ pic.h * s[1] <= cropBox.h * s[2]

\* An upright document can be zoomed out until all of it is in the frame,
\* whatever was done to the frame before (image-editor.tsx:274).
WholeReachable == coarseSteps % 2 = 0 => WholeFits(minScale)

\* Why: the least scale is always that of the frame and of the turns.
LeastScale ==
    /\ natural \in Size /\ cropBox \in Size /\ coarseSteps \in 0 .. 3
    /\ minScale = computeMinScaleFor(cropBox, natural, coarseSteps)
    /\ \A a \in {scale, minScale, offset.x, offset.y} : Fraction(a)
=============================================================================
