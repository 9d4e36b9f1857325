----------------------------- MODULE MCDomainLog -----------------------------
EXTENDS DomainLog

CONSTANTS MaxPos, MaxSize,    \* of the ranges asked for
          MaxRanges,          \* the longest list of them
          MaxEntry,           \* the longest entry
          MaxEntries          \* the longest mapfile

SmallRanges  == [pos : 0..MaxPos, size : 0..MaxSize]
MCRangeLists == UNION {[1..n -> SmallRanges] : n \in 0..MaxRanges}

SmallEntries == [pos : 0..(MaxPos + 1), size : 1..MaxEntry, status : {"+", "-"}]
MCMapfileSet == {es \in UNION {[1..n -> SmallEntries] : n \in 0..MaxEntries} :
                   IsOrdered(es)}
=============================================================================
