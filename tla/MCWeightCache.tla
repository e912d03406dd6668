--------------------------- MODULE MCWeightCache ---------------------------
EXTENDS WeightCache

\* m_metabase_current_stamp is never initialised (impl::impl, 445-500): any
\* value of the StampBits-wide counter is a possible start.
MCAnyStamp == 0..(2^StampBits - 1)
=============================================================================
