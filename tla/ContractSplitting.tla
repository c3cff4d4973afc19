--------------------------- MODULE ContractSplitting ---------------------------
(***************************************************************************)
(* ContractAnalysisService.analyze_vendor_department of detection_svc and  *)
(* the WindowAnalyzer it calls: a window slides over the purchase orders   *)
(* of a vendor and a department that lie below the review threshold, and   *)
(* the windows that overlap are merged into splitting groups.              *)
(*                                                                         *)
(* A step is an iteration of the loop of analyze_windows.  Amounts are in  *)
(* cents and dates in days; averages and deviations are compared by        *)
(* cross-multiplication.  Risk scores, which rank the groups, and the      *)
(* signal computed from them are floating-point values and not modelled.   *)
(***************************************************************************)
EXTENDS Naturals, FiniteSets, FiniteSetsExt, Sequences

\* A purchase order.  It may have a review_threshold of its own, 0 for None.  Orders
\* have different po_ids, so an order is named by its position.
Order == [date : Nat, amount : Nat \ {0}, own_threshold : Nat]

CONSTANTS
    Histories,      \* the sequences of purchase orders the analysis is called with
    Threshold,      \* review_threshold
    WindowDays,     \* window_days
    MinOrders       \* min_pos_for_splitting

ASSUME ContractSplittingAssumption ==
    /\ Histories \subseteq Seq(Order)
    /\ Threshold \in Nat \ {0}
    /\ WindowDays \in Nat
    /\ MinOrders \in Nat \ {0}

VARIABLES
    phase,      \* where the analysis is
    orders,     \* purchase_orders
    sorted,     \* sorted_pos, as positions in orders
    anchor,     \* the next iteration: a position in sorted
    windows,    \* the groups found so far, in the order they were found
    reported    \* splitting_groups of the result

splittingVars == <<phase, orders, sorted, anchor, windows, reported>>

Date(k) == orders[k].date
Amount(k) == orders[k].amount

\* `below`
Below == {k \in DOMAIN orders : Amount(k) < Threshold}

SplittingInit ==
    /\ phase = "filtering"
    /\ orders \in Histories
    /\ sorted = <<>>
    /\ anchor = 1
    /\ windows = <<>>
    /\ reported = {}

\* sorted() by po_date keeps orders of one date as they were.
Before(k, l) == Date(k) < Date(l) \/ (Date(k) = Date(l) /\ k < l)

Arrangements(S) ==
    {s \in [1 .. Cardinality(S) -> S] :
        \A a, b \in 1 .. Cardinality(S) : a < b => Before(s[a], s[b])}

\* Mutant: the windows are made of all orders.
FilterNone ==
    /\ phase = "filtering"
    /\ IF Cardinality(Below) < MinOrders
       THEN phase' = "done" /\ UNCHANGED sorted
       ELSE phase' = "sliding" /\ sorted' \in Arrangements(DOMAIN orders)
    /\ UNCHANGED <<orders, anchor, windows, reported>>

\* Too few orders below the threshold give an empty result.
Filter ==
    /\ phase = "filtering"
    /\ IF Cardinality(Below) < MinOrders
       THEN phase' = "done" /\ UNCHANGED sorted
       ELSE phase' = "sliding" /\ sorted' \in Arrangements(Below)
    /\ UNCHANGED <<orders, anchor, windows, reported>>

-----------------------------------------------------------------------------
\* calculate_metrics of a group of orders S.
Total(S) == MapThenSumSet(Amount, S)
Square(k) == Amount(k) * Amount(k)
Dates(S) == {Date(k) : k \in S}
Span(S) == Max(Dates(S)) - Min(Dates(S))
Exceeds(S) == Total(S) > Threshold
Sequential(S) == Min(Dates(S)) .. Max(Dates(S)) \subseteq Dates(S)

Pattern == {"temporal_clustering", "amount_alignment", "sequential_splitting",
            "frequency_spike", "rounding_pattern"}

\* n * n times the variance of the amounts.
Spread(S) == Cardinality(S) * MapThenSumSet(Square, S) - Total(S) * Total(S)

\* Orders less than 10 % below the threshold.
Near(S) == {k \in S : Amount(k) < Threshold /\ 10 * (Threshold - Amount(k)) < Threshold}

Shows(S, pattern) ==
    LET n == Cardinality(S)
    IN  CASE pattern = "temporal_clustering" -> n > 1 /\ Span(S) <= 2 * (n - 1)
          [] pattern = "amount_alignment" ->
                 Spread(S) > 0 /\ 25 * Spread(S) < Total(S) * Total(S)
          [] pattern = "sequential_splitting" -> n > 1 /\ Sequential(S)
          [] pattern = "frequency_spike" -> n >= 5 /\ Span(S) <= n - 1
          [] pattern = "rounding_pattern" -> Cardinality(Near(S)) >= 2

\* _detect_patterns, called with MinOrders orders at least.
Patterns(S) == {p \in Pattern : Shows(S, p)}

-----------------------------------------------------------------------------
\* The orders in the window of anchor sorted[a]: those after its date, and itself.
Window(a) ==
    {sorted[b] : b \in {c \in a + 1 .. Len(sorted) :
        Date(sorted[a]) < Date(sorted[c]) /\ Date(sorted[c]) <= Date(sorted[a]) + WindowDays}}
    \cup {k \in {sorted[a]} : Amount(k) < Threshold}

\* _create_group
CreateGroup(a) ==
    [start |-> Date(sorted[a]), end |-> Date(sorted[a]) + WindowDays,
     members |-> Window(a), patterns |-> Patterns(Window(a))]

\* Mutant: windows that only touch do not overlap.
OverlapsInside(g, h) == g.start < h.end /\ h.start < g.end

\* _windows_overlap
Overlaps(g, h) == g.start <= h.end /\ h.start <= g.end

\* Mutant: the merged group keeps the end of its window.
MergedShort(g, h) ==
    [start |-> Min({g.start, h.start}), end |-> g.end,
     members |-> g.members \cup h.members, patterns |-> g.patterns \cup h.patterns]

\* Mutant: the orders of the new window are not added.
MergedBare(g, h) ==
    [start |-> Min({g.start, h.start}), end |-> Max({g.end, h.end}),
     members |-> g.members, patterns |-> g.patterns \cup h.patterns]

\* _merge_groups; its metrics are those of the members.  Orders already in the
\* group are recognised by their po_id.
Merged(g, h) ==
    [start |-> Min({g.start, h.start}), end |-> Max({g.end, h.end}),
     members |-> g.members \cup h.members, patterns |-> g.patterns \cup h.patterns]

\* Positions of the groups a new one overlaps.
Met(h) == {j \in DOMAIN windows : Overlaps(windows[j], h)}

\* One iteration: the group of the anchor is merged with the first that it
\* overlaps, or added.
Slide ==
    /\ phase = "sliding"
    /\ anchor <= Len(sorted)
    /\ anchor' = anchor + 1
    /\ IF Cardinality(Window(anchor)) < MinOrders THEN UNCHANGED windows
       ELSE LET h == CreateGroup(anchor)
            IN  IF Met(h) = {} THEN windows' = Append(windows, h)
                ELSE windows' = [windows EXCEPT ![Min(Met(h))] = Merged(@, h)]
    /\ UNCHANGED <<phase, orders, sorted, reported>>

\* is_suspicious_amount, for an order that has a threshold of its own
Suspicious(k) ==
    LET own == orders[k].own_threshold
    IN  own # 0 /\ 90 * own <= 100 * Amount(k) /\ 100 * Amount(k) <= 99 * own

\* Mutant: a group must show patterns whatever its total.
ReportableByPattern(g) ==
    /\ Cardinality(g.members) >= MinOrders
    /\ Cardinality(g.patterns) >= 2

\* _is_valid_splitting_group
Reportable(g) ==
    /\ Cardinality(g.members) >= MinOrders
    /\ \/ Exceeds(g.members)
       \/ Cardinality(g.patterns) >= 2
       \/ \E k \in g.members : Suspicious(k)

\* The loop ends: the valid groups are the result.
Report ==
    /\ phase = "sliding"
    /\ anchor > Len(sorted)
    /\ phase' = "done"
    /\ reported' = {g \in {windows[j] : j \in DOMAIN windows} : Reportable(g)}
    /\ UNCHANGED <<orders, sorted, anchor, windows>>

SplittingNext == Filter \/ Slide \/ Report

SplittingSpec == SplittingInit /\ [][SplittingNext]_splittingVars

-----------------------------------------------------------------------------
GroupType ==
    [start : Nat, end : Nat, members : SUBSET Below, patterns : SUBSET Pattern]

\* The types of the variables.
SplittingTypeOK ==
    /\ phase \in {"filtering", "sliding", "done"}
    /\ orders \in Seq(Order)
    /\ sorted \in Seq(Below)
    /\ anchor \in 1 .. Len(sorted) + 1
    /\ windows \in Seq(GroupType)
    /\ reported \subseteq GroupType

\* The windows of the groups do not overlap and are in the order of their dates, so
\* no purchase order is counted in two groups and merging with the first group that
\* overlaps is merging with the only one (window_analyzer.py:125-136).
WindowsAreDisjoint ==
    \A a, b \in DOMAIN windows : a < b => windows[a].end < windows[b].start

\* After the loop a group holds every order below the threshold whose date lies in
\* its window, from the first day on, and no other.
GroupIsItsWindow ==
    anchor > Len(sorted) =>
        \A g \in {windows[j] : j \in DOMAIN windows} :
            g.members = {k \in Below : g.start <= Date(k) /\ Date(k) <= g.end}

\* The groups divide the orders by time.
GroupsAreWindows == WindowsAreDisjoint /\ GroupIsItsWindow

\* The orders that follow order k within the window.
Followers(k) == {l \in Below : Date(k) < Date(l) /\ Date(l) <= Date(k) + WindowDays}

\* An order starts a splitting group or is in one if MinOrders - 1 orders below the
\* threshold or more follow it within the window on later days: then it is with all
\* of them in one group.  If their total exceeds the threshold, the group is reported.
SplitsAreReported ==
    phase = "done" =>
        \A k \in Below :
            Cardinality(Followers(k) \cup {k}) >= MinOrders =>
                \E j \in DOMAIN windows :
                    /\ Followers(k) \cup {k} \subseteq windows[j].members
                    /\ Exceeds(Followers(k) \cup {k}) => windows[j] \in reported

\* An order is in no group unless it starts a full window or lies in one, and a
\* group is not longer than its windows: chained windows only.
NothingElseIsGrouped ==
    \A j \in DOMAIN windows : \A k \in windows[j].members :
        \E l \in Below :
            /\ Cardinality(Followers(l) \cup {l}) >= MinOrders
            /\ k \in Followers(l) \cup {l}
            /\ windows[j].start <= Date(l) /\ Date(l) + WindowDays <= windows[j].end

\* Groups are made of splits and of nothing else.
SplitsAreGrouped == SplitsAreReported /\ NothingElseIsGrouped
=============================================================================
