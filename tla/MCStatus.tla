------------------------------- MODULE MCStatus -------------------------------
(* Three generic errors, one without a text of its own, and an error of a      *)
(* module with the base error of one of them.                                  *)
EXTENDS Status

MCErrors == {NoError, UnknownError, GenericError(eNotFound),
             [GenericError(eNotFound) EXCEPT !.module_id = 1]}
===============================================================================
