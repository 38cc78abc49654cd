-------------------------------- MODULE Null --------------------------------
(***************************************************************************)
(* The null pointer and the byte that ends a C string, which the parts of  *)
(* libft share.                                                            *)
(***************************************************************************)
CONSTANT NULL

NUL == 0
=============================================================================
