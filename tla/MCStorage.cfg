SPECIFICATION Spec
CONSTANTS
    Retention = 1
    MaxSweeps = 1
    MaxIncidents = 3
INVARIANTS AnswersTrue NewestKept SchemaUsable FailuresShow
