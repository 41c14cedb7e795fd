-------------------------------- MODULE MCConsole --------------------------------
EXTENDS Console

MCStoredRoles == {{}, {"dev"}}
MCEdits == {[name |-> "q", roles |-> {"dev"}, typed |-> FALSE], [name |-> "p", roles |-> {}, typed |-> TRUE]}
MCSheet == {Employee}
==============================================================================
