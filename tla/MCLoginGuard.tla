---------------------------- MODULE MCLoginGuard ----------------------------
(* Two browsers behind different addresses, one name and two emails.        *)
EXTENDS LoginGuard

MCIpOf == [c \in Clients |-> c]
MCRate == [k \in Kinds |-> IF k = "login" THEN 2 ELSE 1]
MCWindow == [k \in Kinds |-> 2]
=============================================================================
