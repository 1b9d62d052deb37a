----------------------------- MODULE MCPreviews -----------------------------
(* ann has three requests: one runs, one waits for her own limiter and one *)
(* is refused, while bob's may wait for the one slot there is.  A preview  *)
(* of the page makes an image and a favicon known.                         *)
EXTENDS Previews

CONSTANTS ann, bob, q1, i1, i2

MCRequester == [q \in Requests |-> IF q = q1 THEN bob ELSE ann]

MCImagesOf == [p \in Pages |-> [image |-> i1, favicon |-> i2]]

=============================================================================
