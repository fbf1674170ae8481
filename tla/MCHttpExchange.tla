--------------------------- MODULE MCHttpExchange ---------------------------
(* Two overlapping requests under each of the filters.                      *)
EXTENDS HttpExchange

MCFilters == {"AllExceptionsFilter", "HttpExceptionFilter"}

=============================================================================
