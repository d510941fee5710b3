---- MODULE MCIntercomLink ----
(* Two ends and a few packets; see the two configurations. *)
EXTENDS IntercomLink
====
