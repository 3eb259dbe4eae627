------------------------------ MODULE MCAccess ------------------------------
(* A small organization for TLC. *)
EXTENDS RowPolicies, TLC

\* Everything treats users, products and requests alike.
Symmetry == Permutations(Users) \union Permutations(Products) \union Permutations(Requests)
=============================================================================
