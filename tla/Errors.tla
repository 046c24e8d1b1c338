------------------------------- MODULE Errors -------------------------------
(***************************************************************************)
(* How a failure becomes a status: the error handler, the only place that  *)
(* decides one (platform/errors, platform/http/error-handler.ts).  A       *)
(* failure is known by its class, by the string `code` it may carry, and   *)
(* by whether its message speaks of the connection to the database.        *)
(***************************************************************************)
EXTENDS Integers

StatusByCode ==
  [VALIDATION_ERROR |-> 400,
   UNAUTHENTICATED |-> 401, INVALID_CREDENTIALS |-> 401, INVALID_PIN |-> 401,
   PIN_LOCKED |-> 423, FORBIDDEN |-> 403, ACCOUNT_FROZEN |-> 403, NOT_FOUND |-> 404,
   IDEMPOTENCY_KEY_REUSE |-> 409, REQUEST_IN_PROGRESS |-> 409,
   INVALID_STATE |-> 409, DUPLICATE |-> 409,
   INSUFFICIENT_FUNDS |-> 422, LIMIT_EXCEEDED |-> 422, SELF_TRANSFER |-> 422,
   RATE_LIMITED |-> 429, INTERNAL |-> 500, SERVICE_UNAVAILABLE |-> 503]

Thrown(class, code, connectivity) ==
  [class |-> class, code |-> code, connectivity |-> connectivity]

NoSuchCode == "undefined"

\* What the services throw: a factory for every code but INTERNAL.
errors == {Thrown("DomainError", c, FALSE) : c \in DOMAIN StatusByCode \ {"INTERNAL"}}

RetryablePg == {"40001", "40P01", "55P03", "57014", "57P01", "57P03"}

\* What PostgreSQL answers with.  57P02, a crash of another backend, is an answer too.
PgErrors ==
  {Thrown("DatabaseError", c, FALSE) :
     c \in RetryablePg \cup {"23505", "23514", "23503", "23001", "57P02"}}

\* The connection itself fails.  The driver says so in a message without a code, the
\* socket with a code of its own: ECONNRESET, ECONNREFUSED.
Disconnected == {Thrown("Error", NoSuchCode, TRUE), Thrown("Error", "ECONNRESET", TRUE)}

\* What the request itself can be at fault in, and what nobody expected.
BadRequest == {Thrown("ZodError", NoSuchCode, FALSE), Thrown("FastifyError", "FST_ERR", FALSE)}
Unexpected == {Thrown("Error", NoSuchCode, FALSE)}

Failure == errors \cup PgErrors \cup Disconnected \cup BadRequest \cup Unexpected

\* pgErrorCode: any error's code, if it is a string, PostgreSQL's or not.
PgErrorCode(e) == e.code

\* setErrorHandler: the first class that fits.  A socket's error carries a code, so it
\* is not taken for a failure of the connection, and is answered with 500.
Respond(e) ==
  CASE e.class = "DomainError"                                  -> StatusByCode[e.code]
    [] e.class \in {"ZodError", "FastifyError"}                 -> 400
    [] OTHER -> IF \/ PgErrorCode(e) \in RetryablePg
                   \/ PgErrorCode(e) = NoSuchCode /\ e.connectivity
                THEN StatusByCode["SERVICE_UNAVAILABLE"]
                ELSE StatusByCode["INTERNAL"]
=============================================================================
