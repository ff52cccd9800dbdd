---------------------------- MODULE MCListPages ----------------------------
(***************************************************************************)
(* ListPages with the views of the two clients.                            *)
(***************************************************************************)
EXTENDS ListPages

V == INSTANCE Views
MCView == DOMAIN V!FeaturesOf
MCFeatures == V!FeaturesOf
=============================================================================
