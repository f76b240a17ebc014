SPECIFICATION AllSpec
INVARIANTS NothingLost ReportsTruthful PushedAsConfirmed HistoryTold ItemsSettle
PROPERTIES AllowancesHold
\* Calls, edits, turns and entries are bounded.
CHECK_DEADLOCK FALSE
