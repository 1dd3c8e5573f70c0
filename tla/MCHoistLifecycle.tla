-------------------------- MODULE MCHoistLifecycle --------------------------
EXTENDS HoistLifecycle

Endpoint(local, count, toplevels, reparents, slotsMayGo) ==
  [available |-> TRUE, local |-> local, toplevels |-> toplevels, reparents |-> reparents,
   slotsMayGo |-> slotsMayGo, families |-> count]

\* A remote endpoint, where the client changes its families, or two families are
\* begun, or other code removes placeholders; the loopback with two toplevels,
\* and with one whose placeholder is removed.
RemoteAndLoopback ==
  {Endpoint(FALSE, 1, Toplevels, TRUE, FALSE), Endpoint(FALSE, 2, Toplevels, FALSE, FALSE),
   Endpoint(FALSE, 1, Toplevels, FALSE, TRUE), Endpoint(TRUE, 1, Toplevels, FALSE, FALSE),
   Endpoint(TRUE, 2, {CHOOSE t \in Toplevels : TRUE}, FALSE, TRUE)}
=============================================================================
