---------------------------- MODULE MCWorkspace ----------------------------
(* Workspace on two public repositories, one of which lacks a branch of    *)
(* the other, and a private one.                                           *)
EXTENDS Workspace, TLC

CONSTANTS app, lib, vault, main, dev, topic, w1, w2

AppLibVault == (app :> {main, dev}) @@ (lib :> {main}) @@ (vault :> {main})
=============================================================================
