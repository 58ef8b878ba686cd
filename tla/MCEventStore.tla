---------------------------- MODULE MCEventStore ----------------------------
(* Model values for checking EventStore with TLC: four versions of one       *)
(* addressable event, two of them of the same second, a note, and a deletion *)
(* that names one version and the note by id and the rest by address.        *)
EXTENDS EventStore, TLC
CONSTANTS c1, c2, c3, alice, bob, article, v1, v2, w2, v3, note, gone

TwoConns   == {c1, c2}
TwoUsers   == {alice, bob}
SixEvents  == {v1, v2, w2, v3, note, gone}
Authors    == [e \in SixEvents |-> IF e = note THEN bob ELSE alice]
Times      == (v1 :> 1) @@ (v2 :> 2) @@ (w2 :> 2) @@ (v3 :> 3) @@ (note :> 1) @@ (gone :> 2)
OneAddress == {article}
Address    == [e \in SixEvents |-> IF e \in {note, gone} THEN NoAddress ELSE article]
Owners     == [a \in OneAddress |-> alice]
OneGone    == {gone}
GoneIds    == [d \in OneGone |-> {v3, note}]
GoneAddresses == [d \in OneGone |-> OneAddress]
=============================================================================
