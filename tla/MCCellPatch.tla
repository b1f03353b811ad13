---------------------------- MODULE MCCellPatch ----------------------------
(* CellPatch for TLC: small cells, and the bodies clients send.             *)
EXTENDS CellPatch, TLC

NoSet == {}
MCTextBytes == [t \in Texts |-> IF t = "long" THEN 140 ELSE 100]

\* A plain value, and the dictionaries clients send as metadata.
V == CHOOSE v \in MetaValues : TRUE
Sent == {k :> V : k \in MetaKeys} \cup {"k" :> (l :> V) : l \in MetaKeys}

\* 20 bytes a key.
MCMetaBytes ==
    [m \in Metadata |->
        20 * Cardinality({<<k>> : k \in DOMAIN m}
                         \cup {<<k, l>> \in MetaKeys \X MetaKeys :
                                  k \in DOMAIN m /\ m[k] \in NestedDicts
                                  /\ l \in DOMAIN m[k]})]

\* Counts from the limit on take another digit.
MCDigitsOf == [n \in 0..MaxCount |-> IF n < MaxCount THEN 1 ELSE 2]

\* A cell of little importance starts below the threshold, one that does not
\* decay never falls below it, and any other does in a day.
MCLifetimeOf ==
    [scoring \in Ratios \X Ratios \X Rates |->
        CASE scoring[1] < 50 -> -1 [] scoring[1] >= 50 /\ scoring[3] = 0 -> MaxTime [] OTHER -> 0]

Content == {[text |-> t] : t \in Texts}
           \cup {[text |-> "short", metadata |-> m] : m \in Sent}
Scoring == {[importance |-> 10], [decay_rate |-> 0, access_count |-> 1]}
Policy == {[writable_by |-> Agents]}
Origin == {[source_type |-> "s"], [source_ref |-> "s", source_type |-> Null]}
Lifecycle == {[status |-> s] : s \in {"active", "archived", "deleted"}}
             \cup {[expires_at |-> 1], [expires_at |-> Null, last_updated_at |-> 0]}

MCRequests ==
    {[content |-> c] : c \in Content}
    \cup {[content |-> [text |-> "short"], scoring |-> [decay_rate |-> 0]]}
    \cup {[scoring |-> s] : s \in Scoring}
    \cup {[access_policy |-> p] : p \in Policy}
    \cup {[provenance |-> p] : p \in Origin}
    \cup {[lifecycle |-> l] : l \in Lifecycle}
=============================================================================
