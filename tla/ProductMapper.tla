------------------------------- MODULE ProductMapper -------------------------------
(***************************************************************************)
(* sync-engine/src/services/productMapper.ts, as the Guardian uses it:     *)
(* products of two channels are matched by an override made by hand, by    *)
(* SKU, by barcode and by the likeness of their names, in this order.      *)
(* SKUs and names are taken as lower-cased and trimmed.                    *)
(***************************************************************************)
EXTENDS Integers, Sequences, FiniteSets

CONSTANTS
    Listings,     \* lists of products a channel may answer
    Threshold,    \* fuzzyMatchThreshold, in hundredths
    ChannelPairs, \* names of two channels: what overrides are keyed by, not the ids
    Nothing       \* a SKU, a barcode or a product that is not there

ASSUME ListingsAreLists == \A l \in Listings : DOMAIN l \subseteq Nat

VARIABLES
    override,     \* manualMappingOverrides: a set of [source, pair, target]
    pending,      \* a call of mapProductsBetweenChannels that awaits the channels
    answer        \* the mappings the last call returned

mapperVars == <<override, pending, answer>>

Ids == {p.id : p \in UNION {{l[n] : n \in DOMAIN l} : l \in Listings}}

-----------------------------------------------------------------------------
(* Matching *)

Least(S) == CHOOSE x \in S : \A y \in S : x <= y

\* levenshteinDistance
Levenshtein(s, t) ==
    LET dp[i \in 0 .. Len(s), j \in 0 .. Len(t)] ==
            IF i = 0 \/ j = 0 THEN i + j
            ELSE Least({dp[i - 1, j] + 1, dp[i, j - 1] + 1,
                        dp[i - 1, j - 1] + (IF s[i] = t[j] THEN 0 ELSE 1)})
    IN dp[Len(s), Len(t)]

\* calculateStringSimilarity, as a fraction.
Similarity(s, t) ==
    LET longer == IF Len(s) > Len(t) THEN Len(s) ELSE Len(t)
    IN [of |-> longer, alike |-> longer - Levenshtein(s, t)]

Above(a, b) == a.alike * b.of > b.alike * a.of
Reaches(a) == 100 * a.alike >= Threshold * a.of

\* find: the first of the list, if there is one.
FirstOf(list, Test(_)) ==
    LET hits == {n \in DOMAIN list : Test(list[n])}
    IN IF hits = {} THEN Nothing ELSE list[Least(hits)].id

MatchBySku(p, list) ==
    IF p.sku = Nothing THEN Nothing ELSE FirstOf(list, LAMBDA q : q.sku = p.sku)

MatchByBarcode(p, list) ==
    IF p.barcode = Nothing THEN Nothing ELSE FirstOf(list, LAMBDA q : q.barcode = p.barcode)

\* The first of the most similar names, if it is similar enough.
MatchByFuzzyName(p, list) ==
    LET named == {list[n] : n \in {m \in DOMAIN list : list[m].name # <<>>}}
        like(q) == Similarity(p.name, q.name)
    IN IF p.name = <<>> THEN Nothing
       ELSE FirstOf(list, LAMBDA q : /\ q \in named /\ Reaches(like(q))
                                     /\ \A r \in named : ~Above(like(r), like(q)))

ByHand(p, pair) == {o \in override : o.source = p.id /\ o.pair = pair}

Mapping(p, to, strategy) == [source |-> p.id, target |-> to, strategy |-> strategy]

\* The mapping of one product, or none.
MapProduct(p, list, pair) ==
    LET sku == MatchBySku(p, list)
        barcode == MatchByBarcode(p, list)
        name == MatchByFuzzyName(p, list)
    IN CASE ByHand(p, pair) # {} -> {Mapping(p, o.target, "manual") : o \in ByHand(p, pair)}
         [] ByHand(p, pair) = {} /\ sku # Nothing -> {Mapping(p, sku, "sku")}
         [] ByHand(p, pair) = {} /\ sku = Nothing /\ barcode # Nothing ->
                {Mapping(p, barcode, "barcode")}
         [] ByHand(p, pair) = {} /\ sku = Nothing /\ barcode = Nothing /\ name # Nothing ->
                {Mapping(p, name, "name_fuzzy")}
         [] OTHER -> {}

MapProducts(source, list, pair) ==
    UNION {MapProduct(source[n], list, pair) : n \in DOMAIN source}

-----------------------------------------------------------------------------
(* The Guardian's calls *)

NoCall == [on |-> FALSE]

MapperTypeOK ==
    /\ override \subseteq [source : Ids, pair : ChannelPairs, target : Ids]
    \* One override of a product for a pair of channels, as the key demands.
    /\ \A o, p \in override : o.source = p.source /\ o.pair = p.pair => o = p
    /\ pending = NoCall \/ (pending.source \in Listings /\ pending.list \in Listings)
    /\ answer \subseteq [source : Ids, target : Ids,
                         strategy : {"manual", "sku", "barcode", "name_fuzzy"}]

MapperInit == override = {} /\ pending = NoCall /\ answer = {}

\* addManualProductMapping: a later one replaces an earlier one.
AddManualMapping(p, q, pair) ==
    /\ override' = {o \in override : ~(o.source = p /\ o.pair = pair)}
                     \cup {[source |-> p, pair |-> pair, target |-> q]}
    /\ UNCHANGED <<pending, answer>>

RemoveManualMapping(p, pair) ==
    /\ override' = {o \in override : ~(o.source = p /\ o.pair = pair)}
    /\ UNCHANGED <<pending, answer>>

ClearManualMappings == override' = {} /\ UNCHANGED <<pending, answer>>

MapProductsBetweenChannels(source, list, pair) ==
    /\ pending = NoCall
    /\ pending' = [on |-> TRUE, source |-> source, list |-> list, pair |-> pair]
    /\ answer' = {}
    /\ UNCHANGED override

\* getChannels has answered; the overrides are those of this moment.
Mapped ==
    /\ pending # NoCall
    /\ answer' = MapProducts(pending.source, pending.list, pending.pair)
    /\ pending' = NoCall
    /\ UNCHANGED override

\* It failed, or one of the channels is not the tenant's.
MappingThrows ==
    /\ pending # NoCall
    /\ pending' = NoCall
    /\ UNCHANGED <<override, answer>>

MapperNext ==
    \/ \E pair \in ChannelPairs :
          \/ \E p \in Ids : \/ RemoveManualMapping(p, pair)
                            \/ \E q \in Ids : AddManualMapping(p, q, pair)
          \/ \E source, list \in Listings : MapProductsBetweenChannels(source, list, pair)
    \/ ClearManualMappings \/ Mapped \/ MappingThrows

-----------------------------------------------------------------------------
(* What Levenshtein's distance is to be, by the alignments of two names.   *)

\* Letters of s set against letters of t, none crossing another.
Alignments(s, t) ==
    {a \in SUBSET ((1 .. Len(s)) \X (1 .. Len(t))) :
        \A x, y \in a : x # y => (x[1] < y[1] /\ x[2] < y[2]) \/ (x[1] > y[1] /\ x[2] > y[2])}

\* What an alignment leaves to remove, to insert and to replace.
EditsOf(a, s, t) ==
    (Len(s) - Cardinality(a)) + (Len(t) - Cardinality(a))
        + Cardinality({x \in a : s[x[1]] # t[x[2]]})

Names == {p.name : p \in UNION {{l[n] : n \in DOMAIN l} : l \in Listings}}

\* For all names the listings show, Levenshtein counts the edits of the best alignment.
ASSUME LevenshteinIsEditDistance ==
    \A s, t \in Names : Levenshtein(s, t) = Least({EditsOf(a, s, t) : a \in Alignments(s, t)})
=============================================================================
