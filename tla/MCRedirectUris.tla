--------------------------- MODULE MCRedirectUris ---------------------------
(* Small instances of RedirectUris for TLC. *)
EXTENDS RedirectUris, TLC

CONSTANTS r1, r2, r3

\* Two redirect URIs and a post-logout redirect URI.
TwoKinds == (r1 :> "redirect") @@ (r2 :> "redirect") @@ (r3 :> "post_logout")
OneKind == (r1 :> "redirect") @@ (r2 :> "redirect") @@ (r3 :> "redirect")
=============================================================================
