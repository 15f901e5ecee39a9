---------------------------- MODULE MCSupervisor ----------------------------
(* Small instances of Supervisor: one url, and an app that is gone, off,   *)
(* on once the url answers, or on at once.                                 *)
EXTENDS Supervisor

On == {[enabled |-> TRUE, url |-> u] : u \in Urls}
Off == {[enabled |-> FALSE, url |-> u] : u \in Urls}
Plain == [enabled |-> TRUE, url |-> None]
MCConfigs == On \cup Off \cup {Plain, None}
=============================================================================
