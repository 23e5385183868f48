---------------------------- MODULE MCReinspection ----------------------------
(***************************************************************************)
(* Instances of Reinspection: who may have a request in flight at once.    *)
(***************************************************************************)
EXTENDS Reinspection, TLC

CONSTANTS one, app, ana, bia, n1, n2

\* One request at a time, from anyone.
Serial == one :> Handlers

\* The associado's app and one analyst of the panel, concurrently.
AppAndAnalyst == app :> AppHandlers @@ ana :> PanelHandlers

\* Two analysts of the panel, and the app between their requests.
TwoAnalysts == ana :> PanelHandlers @@ bia :> Handlers
=============================================================================
