----------------------------- MODULE ErrorAnswers ----------------------------
(***************************************************************************)
(* What becomes of a request the server turns down: the filter makes an    *)
(* answer of the exception, the phone an error of the answer and an event  *)
(* of its upload queue of the error.                                       *)
(***************************************************************************)
EXTENDS Naturals

ErrorHttpStatus ==
    [UNAUTHENTICATED |-> 401, INVALID_CREDENTIAL |-> 401,
     COMPANY_SUSPENDED |-> 403, DEVICE_BLOCKED |-> 403, DEVICE_RETIRED |-> 403,
     FORBIDDEN_SCOPE |-> 403, DEVICE_LIMIT_REACHED |-> 409, DUPLICATE_ORDER_ID |-> 409,
     DUPLICATE_TRANSACTION_ID |-> 409, IDEMPOTENCY_KEY_REUSED |-> 409,
     REQUEST_IN_PROGRESS |-> 409, ORDER_NOT_PENDING |-> 409, ORDER_NOT_FOUND |-> 404,
     VALIDATION_ERROR |-> 400, INVALID_CALLBACK_URL |-> 400, RATE_LIMITED |-> 429,
     PAYLOAD_TOO_LARGE |-> 413, INTERNAL_ERROR |-> 500]
ErrorCode == DOMAIN ErrorHttpStatus

(* An AppError, a constraint of the database, an exception of the          *)
(* framework, or anything else.                                            *)
Exceptions ==
    [type : {"APP"}, code : ErrorCode] \cup [type : {"HTTP"}, status : 400 .. 599]
    \cup [type : {"UNIQUE", "CONSTRAINT", "OTHER"}]

AppAnswer(code) == [code |-> code, status |-> ErrorHttpStatus[code]]

(* AllExceptionsFilter.mapHttp and map.                                    *)
MapHttp(status) ==
    [status |-> status,
     code   |-> CASE status = 401 -> "UNAUTHENTICATED"
                  [] status = 403 -> "FORBIDDEN_SCOPE"
                  [] status = 413 -> "PAYLOAD_TOO_LARGE"
                  [] status = 429 -> "RATE_LIMITED"
                  [] status >= 500 -> "INTERNAL_ERROR"
                  [] OTHER -> "VALIDATION_ERROR"]
MapException(e) ==
    CASE e.type = "APP"        -> AppAnswer(e.code)
      [] e.type = "HTTP"       -> MapHttp(e.status)
      [] e.type = "UNIQUE"     -> [code |-> "VALIDATION_ERROR", status |-> 409]
      [] e.type = "CONSTRAINT" -> [code |-> "VALIDATION_ERROR", status |-> 400]
      [] OTHER                 -> AppAnswer("INTERNAL_ERROR")

(* ErrorMapper.fromResponse: four codes by name, the rest by status.       *)
KnownCodes == {"DEVICE_BLOCKED", "DEVICE_RETIRED", "DEVICE_LIMIT_REACHED", "COMPANY_SUSPENDED"}
FromResponse(answer) ==
    IF answer.code \in KnownCodes THEN answer.code
    ELSE CASE answer.status = 401 -> "UNAUTHENTICATED"
           [] answer.status = 429 -> "RATE_LIMITED"
           [] answer.status = 400 -> "VALIDATION"
           [] OTHER               -> "SERVER"

(* UploadPending.failWholeBatch: what is not known to last is tried again. *)
EventFor(error) ==
    CASE error = "UNAUTHENTICATED" -> "UNAUTHENTICATED"
      [] error \in {"DEVICE_BLOCKED", "DEVICE_RETIRED", "COMPANY_SUSPENDED"} -> "FORBIDDEN"
      [] error = "RATE_LIMITED" -> "RATE_LIMITED"
      [] OTHER -> "TRANSPORT"

RefusalEvent(e) == EventFor(FromResponse(MapException(e)))
=============================================================================
