-------------------------- MODULE MCPlanComputation --------------------------
(***************************************************************************)
(* Every inventory of a small shape: an index that is deleted, two nested  *)
(* manifests, and a leaf that may be tagged, be a referrer, or be history. *)
(***************************************************************************)
EXTENDS PlanComputation, TLC

CONSTANTS index1, inner, other, leaf

MCDigests == {index1, inner, other, leaf}

Row(state, tagged, subject, platforms) ==
  [state |-> state, tagged |-> tagged, subject |-> subject, platforms |-> platforms]

\* Platform rows, in two orders where the order can matter.
IndexRows == {Row("active", TRUE, NoSubject, p) :
                p \in {<<inner, leaf>>, <<leaf, inner>>, <<inner, other>>}}
InnerRows == {Row(s, FALSE, NoSubject, p) :
                s \in {"untagged", "missing"},
                p \in {<<inner>>, <<leaf>>, <<other, leaf>>, <<leaf, leaf>>}}
             \cup {Row("active", TRUE, NoSubject, <<leaf>>)}
OtherRows == {Row(s, FALSE, NoSubject, p) :
                s \in {"untagged", "deleted"}, p \in {<<other>>, <<leaf>>, <<inner>>}}
             \cup {Row("active", TRUE, NoSubject, <<leaf>>),
                   Row("untagged", FALSE, leaf, <<other>>),
                   Row("untagged", FALSE, inner, <<other>>)}
LeafRows == {Row(s, FALSE, NoSubject, <<leaf>>) : s \in {"untagged", "missing"}}
            \cup {Row("active", TRUE, NoSubject, <<leaf>>),
                  Row("untagged", FALSE, other, <<leaf>>)}

\* The row of a digest, or none at all.
Optional(d, rows) == {(d :> r) : r \in rows} \cup {<<>>}

\* A digest is computed from the digests it lists: rows are never circular.
Circular(r) == \E d, e \in DOMAIN r :
                   d # e /\ e \in PlatformSet(r[d]) \cup {r[d].subject}
                         /\ d \in PlatformSet(r[e]) \cup {r[e].subject}

MCInputs ==
  {input \in {[inv |-> (index1 :> i) @@ n @@ o @@ l, target |-> index1] :
                i \in IndexRows, n \in Optional(inner, InnerRows),
                o \in Optional(other, OtherRows), l \in Optional(leaf, LeafRows)} :
     ~Circular(input.inv)}
=============================================================================
