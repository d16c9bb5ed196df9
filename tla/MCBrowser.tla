----------------------------- MODULE MCBrowser -----------------------------
(***************************************************************************)
(* A small card for the browser: a folder with two files, the guides, and  *)
(* files of the root on more than one page.                                *)
(***************************************************************************)
EXTENDS Browser

MCNames == {"GUIDES", "d", "f", "p", "m"}
MCType == [GUIDES |-> "dir", d |-> "dir", f |-> "data",
           p |-> "picture", m |-> "guide"]

Root == <<>>
MCInitCards ==
  {(Root :> <<"d", "p">>) @@ (<<"d">> :> <<"f", "p">>),
   (Root :> <<"GUIDES">>) @@ (<<"GUIDES">> :> <<"m">>)}
=============================================================================
