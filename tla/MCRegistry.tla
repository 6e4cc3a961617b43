----------------------------- MODULE MCRegistry -----------------------------
(* Two worker threads and a handful of handles. *)
EXTENDS Registry

MCPrograms == {{"memory", "goroutine"}, {"chan", "string"}, {"opaque", "string"}}
=============================================================================
