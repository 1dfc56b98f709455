-------------------------------- MODULE MCWeb --------------------------------
(* Small instances of Web.                                                  *)
EXTENDS Web, TLC

CONSTANTS p1, p2

TwoProjects == {p1, p2}

\* A link may name a type, and a sku that the type lacks.
TypesOfLinks == {"", Graph}
SkusOfLinks  == {"gold"}

\* Two names make the same id.
Slug == [n \in {"kafka", "Kafka"} |-> "kafka"]
=============================================================================
