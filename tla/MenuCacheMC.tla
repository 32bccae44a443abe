---------------------------- MODULE MenuCacheMC ----------------------------
(* TLC's instances of MenuCache.                                           *)
EXTENDS MenuCache

\* One fault of each kind.
OneOfEach == [crash |-> 1, db |-> 1, cache |-> 1]

=============================================================================
