--------------------------- MODULE IdealJudgement ---------------------------
(***************************************************************************)
(* Which images fit which display: the verdict of src/catalogue/ideal.py in *)
(* Python, the same verdict as the SQL that rebuilds the table ideal_image  *)
(* writes it, and the segments of src/catalogue/queries.py that read the    *)
(* table.                                                                   *)
(*                                                                          *)
(* An image's dims are its size after EXIF rotation, usable when the probe  *)
(* could decode it, plain when it is still and opaque.  All arithmetic is   *)
(* the code's integer arithmetic; the fractions shown to the user, the sort *)
(* orders and the filters of the chips other than the least long edge are   *)
(* not modelled.                                                            *)
(***************************************************************************)
EXTENDS Integers, FiniteSets, Functions

CONSTANTS MaxDimension,   \* a longer side is bad data
          NearCropPct,    \* what a near miss may lose to the crop
          NearCoverPct    \* what a near miss must cover of each side

ASSUME JudgementAssumption ==
    /\ MaxDimension \in Nat /\ NearCropPct \in 0 .. 100 /\ NearCoverPct \in 0 .. 100

Low(a, b) == IF a < b THEN a ELSE b
High(a, b) == IF a < b THEN b ELSE a

Sane(size) == \A i \in {1, 2} : 0 < size[i] /\ size[i] <= MaxDimension

\* One is landscape and the other portrait.
Crosswise(size, big) ==
    \/ size[1] > size[2] /\ big[1] < big[2]
    \/ size[1] < size[2] /\ big[1] > big[2]

\* What a centre crop to the display keeps, and what a crop may lose.
Keeps(size, big, lossPct) ==
    LET a == size[1] * big[2]
        b == big[1] * size[2]
    IN  100 * Low(a, b) >= (100 - lossPct) * High(a, b)

Covers100(size, big, pct) ==
    100 * size[1] >= pct * big[1] /\ 100 * size[2] >= pct * big[2]

-----------------------------------------------------------------------------
(* The two forms of the verdict. *)

\* evaluate: one image against one display.
Evaluate(dims, big, threshold) ==
    LET covers == dims.size[1] >= big[1] /\ dims.size[2] >= big[2]
        crop == Keeps(dims.size, big, threshold)
        oriented == ~Crosswise(dims.size, big)
        integrity == dims.usable /\ dims.plain
        near == /\ integrity /\ oriented
                /\ Covers100(dims.size, big, NearCoverPct)
                /\ Keeps(dims.size, big, NearCropPct)
    IN  IF ~Sane(dims.size) THEN [verdict |-> "no", exact |-> FALSE]
        ELSE [verdict |-> IF covers /\ crop /\ oriented /\ integrity THEN "ideal"
                          ELSE IF near THEN "near" ELSE "no",
              exact |-> dims.size = big]

\* Mutant: without the clause for thresholds above the near-miss bound.
NearBoundJudged(dims, big, threshold) ==
    /\ dims.usable /\ dims.plain /\ Sane(dims.size)
    /\ ~Crosswise(dims.size, big)
    /\ Covers100(dims.size, big, NearCoverPct)
    /\ Keeps(dims.size, big, NearCropPct)

\* The WHERE clause of the rebuild: a row is written at all.
IsJudged(dims, big, threshold) ==
    /\ dims.usable /\ dims.plain /\ Sane(dims.size)
    /\ ~Crosswise(dims.size, big)
    /\ Covers100(dims.size, big, NearCoverPct)
    /\ \/ Keeps(dims.size, big, NearCropPct)
       \/ Covers100(dims.size, big, 100) /\ Keeps(dims.size, big, threshold)

\* Its SELECT: what the row says.
JudgedRow(dims, big, threshold) ==
    [verdict |-> IF Covers100(dims.size, big, 100)
                    /\ Keeps(dims.size, big, threshold)
                 THEN "ideal" ELSE "near",
     exact |-> dims.size = big]

Connected(displays) == {d \in DOMAIN displays : displays[d].connected}

\* The rebuild for the images `ids`, of those whose dims are given: their old
\* rows go, for every display, and the connected displays are judged anew.
Rebuild(ideal, dimsOf, displays, threshold, ids) ==
    LET kept == {x \in DOMAIN ideal : x[1] \notin ids}
        judged == {x \in (ids \cap DOMAIN dimsOf) \X Connected(displays) :
                        IsJudged(dimsOf[x[1]], displays[x[2]].size, threshold)}
    IN  [x \in kept \cup judged |->
            IF x \in judged
            THEN JudgedRow(dimsOf[x[1]], displays[x[2]].size, threshold)
            ELSE ideal[x]]

-----------------------------------------------------------------------------
(* The segments.  A query names a segment ("all", "ideal", "near"), a        *)
(* display or 0, whether every display is asked for, exact ("any", "exact",  *)
(* "larger"), whether excluded and unusable rows are wanted, and the least   *)
(* long edge or 0.                                                           *)

\* The rows of ideal_image the EXISTS and count() of a segment run over.
Verdicts(ideal, displays, id, verdict) ==
    {d \in Connected(displays) :
        <<id, d>> \in DOMAIN ideal /\ ideal[<<id, d>>].verdict = verdict}

ExactAs(ideal, id, q) ==
    {d \in {x[2] : x \in {y \in DOMAIN ideal : y[1] = id}} :
        q.exact = "any" \/ ideal[<<id, d>>].exact = (q.exact = "exact")}

OnDisplay(q, d) == q.display = 0 \/ d = q.display

Pin(pins, id) == IF id \in DOMAIN pins THEN pins[id] ELSE "none"

\* Mutant: a display with any verdict counts for "every display".
InIdealAnyVerdict(ideal, displays, pins, id, q) ==
    LET fits == Verdicts(ideal, displays, id, "ideal") \cap ExactAs(ideal, id, q)
        near == Verdicts(ideal, displays, id, "near")
        fact == IF q.every
                THEN Connected(displays) # {} /\ fits \cup near = Connected(displays)
                ELSE \E d \in fits : OnDisplay(q, d)
    IN  /\ IF q.exact = "any" THEN Pin(pins, id) = "in" \/ fact ELSE fact
        /\ Pin(pins, id) # "out"

\* Ideal for a display, for one of them or for all.  A pin is a member, but
\* never an exact match or a larger one.
InIdeal(ideal, displays, pins, id, q) ==
    LET fits == Verdicts(ideal, displays, id, "ideal") \cap ExactAs(ideal, id, q)
        fact == IF q.every
                THEN Connected(displays) # {} /\ fits = Connected(displays)
                ELSE \E d \in fits : OnDisplay(q, d)
    IN  /\ IF q.exact = "any" THEN Pin(pins, id) = "in" \/ fact ELSE fact
        /\ Pin(pins, id) # "out"

\* A near miss: of the display asked for, or of one when none is ideal.
InNear(ideal, displays, pins, id, q) ==
    /\ \E d \in Verdicts(ideal, displays, id, "near") : OnDisplay(q, d)
    /\ q.display = 0 => Verdicts(ideal, displays, id, "ideal") = {}
    /\ Pin(pins, id) # "in"

\* Excluded rows are only seen in "all", small ones by removing the filter.  No
\* row is missing where this is used, so the filter on missing is left out.
Filtered(row, q) ==
    /\ q.segment # "all" \/ ~q.excluded => row.visible
    /\ q.unusable \/ row.dims.usable
    /\ q.edge = 0 \/ ~row.dims.usable
         \/ High(row.dims.size[1], row.dims.size[2]) >= q.edge

\* The images a query finds; `images` is id -> dims, visible.
Query(images, ideal, displays, pins, q) ==
    {id \in DOMAIN images :
        /\ q.segment = "ideal" => InIdeal(ideal, displays, pins, id, q)
        /\ q.segment = "near" => InNear(ideal, displays, pins, id, q)
        /\ Filtered(images[id], q)}

\* The segment counts of the page, with the filters of q.
SegmentCounts(images, ideal, displays, pins, q) ==
    LET base == [q EXCEPT !.display = 0, !.every = FALSE, !.exact = "any"]
        ofIdeal == [base EXCEPT !.segment = "ideal"]
        count(x) == Cardinality(Query(images, ideal, displays, pins, x))
    IN  [all    |-> count([base EXCEPT !.segment = "all"]),
         ideal  |-> count(ofIdeal),
         near   |-> count([base EXCEPT !.segment = "near"]),
         exact  |-> count([ofIdeal EXCEPT !.exact = "exact"]),
         larger |-> count([ofIdeal EXCEPT !.exact = "larger"]),
         every  |-> count([ofIdeal EXCEPT !.every = TRUE]),
         displays |-> [d \in Connected(displays) |->
                           count([ofIdeal EXCEPT !.display = d])]]

=============================================================================
