-------------------------- MODULE MCContractSplitting --------------------------
\* Instance of ContractSplitting for TLC: every sequence of up to MaxOrders orders,
\* and those of one more order that are in the order of their dates, with a window
\* shorter than the range of the dates.  Orders of the last day have no threshold of
\* their own.
EXTENDS ContractSplitting

CONSTANTS MaxOrders, MaxDate, Amounts

MCOrders ==
    {[date |-> d, amount |-> a, own_threshold |-> IF d = MaxDate THEN 0 ELSE Threshold] :
        d \in 1 .. MaxDate, a \in Amounts}

MCHistories ==
    UNION {[1 .. n -> MCOrders] : n \in 0 .. MaxOrders}
    \cup {h \in [1 .. MaxOrders + 1 -> MCOrders] :
            \A k \in 1 .. MaxOrders : h[k].date <= h[k + 1].date}
=============================================================================
