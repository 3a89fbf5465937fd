------------------------------ MODULE MCNotify ------------------------------
(* A small instance of Notify: one reminder, one event, two browsers.     *)
EXTENDS Notify

CONSTANTS k1, e1, b1, b2
=============================================================================
