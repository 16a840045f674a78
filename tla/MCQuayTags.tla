----------------------------- MODULE MCQuayTags -----------------------------
(* Instances of QuayTags for TLC: four tags on two pages, three of them    *)
(* old, and a name for a tag pushed meanwhile.                             *)
EXTENDS QuayTags

CONSTANTS t1, t2, t3, t4, t5

MCTags == {t1, t2, t3, t4, t5}

MCRepo == <<t1, t2, t3, t4>>

MCOld == {t2, t3, t4}
=============================================================================
