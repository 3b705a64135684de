---------------------------- MODULE MCStaleCache ----------------------------
(***************************************************************************)
(* One inline and one deferred change, two requests.  One tick is the life *)
(* of a lock, the time a request has, and half the life of an entry: a     *)
(* holder may outlive its lock, and an entry be fresh, stale or gone.      *)
(***************************************************************************)
EXTENDS StaleCacheProperties
=============================================================================
