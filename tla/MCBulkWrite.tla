---------------------------- MODULE MCBulkWrite ----------------------------
EXTENDS BulkWrite, TLC

MCDefaultGroups == <<1, 2, 3>>
\* No explicit list, and an explicit list of two groups.
MCGroupArgs == {<<>>, <<3, 1>>}
\* The keys are interchangeable: every property quantifies over all of them.
MCKeySymmetry == Permutations(Keys)
=============================================================================
