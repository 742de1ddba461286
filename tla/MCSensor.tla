------------------------------ MODULE MCSensor ------------------------------
(* robots.txt, and the beacon of a page that it disallows to everyone.     *)
EXTENDS Sensor

CONSTANTS crawler, other

MCKind == [s \in Standards |-> IF s = "meta_noai" THEN "capability" ELSE "prohibition"]

MCPlanted == [t \in {Policy("robots"), Page("restricted")} |->
  IF t = Page("restricted") THEN {"meta_noai"} ELSE {t[2]}]

MCForbidden == Clients \X ({Page("restricted")} \union {Trap(s) : s \in Standards})

=============================================================================
