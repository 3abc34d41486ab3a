--------------------------------- MODULE MCApi ---------------------------------
EXTENDS Api

CONSTANT s1  \* the service all reports come from

ServiceOfReports == [r \in Reports |-> s1]
=============================================================================
