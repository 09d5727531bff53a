---------------------------- MODULE AnalyzeErrors ----------------------------
(***************************************************************************)
(* How a fault travels: from the speech service through its HTTP client    *)
(* (speech/client.py), the API and its error handlers (domain/errors.py,   *)
(* api/) and the analysis client of the pipeline to the words in the chat. *)
(* Statuses are numbers, codes the names of ErrorCode.                     *)
(***************************************************************************)
EXTENDS Integers, Sequences

\* ERROR_SPECS
Status(code) ==
    CASE code = "invalid_input"            -> 400
      [] code = "role_resolution_required" -> 409
      [] code = "payload_too_large"        -> 413
      [] code = "unsupported_media"        -> 415
      [] code \in {"invalid_request", "invalid_url", "invalid_audio", "no_speech"} -> 422
      [] code = "quota_exceeded"           -> 429
      [] code \in {"provider_failure", "agent_failure"} -> 502
      [] code = "service_unavailable"      -> 503
      [] code = "deadline_exceeded"        -> 504
      [] OTHER                             -> 500

\* The service's own checks of an upload, in _parse_source.
SourceFault(file, maxUpload) ==
    IF file.size > maxUpload THEN "payload_too_large"
    ELSE IF file.size = 0 THEN "invalid_audio" ELSE "ok"

\* What LazySpeechRuntime raises, as transcribe of the service maps it; the
\* codes of its own checks stay.
ServiceCode(error) ==
    CASE error = "UnsupportedMediaError"       -> "unsupported_media"
      [] error \in {"MediaTimeoutError", "SpeechDeadlineExceededError"} -> "deadline_exceeded"
      [] error = "MediaValidationError"        -> "invalid_audio"
      [] error = "NoSpeechError"               -> "no_speech"
      [] error = "RoleResolutionRequiredError" -> "role_resolution_required"
      [] error = "SpeechOverloadedError"       -> "quota_exceeded"
      [] error = "SpeechConfigurationError"    -> "service_unavailable"
      [] error = "SpeechProviderError"         -> "provider_failure"
      [] error \in {"payload_too_large", "invalid_audio", "service_unavailable"} -> error
      [] OTHER                                 -> "internal_error"    \* a ValidationError

\* Mutant: the list of safe errors knows no statuses of the user's own faults.
SafeUpstreamShort(code) ==
    code \in {"quota_exceeded", "provider_failure", "service_unavailable", "deadline_exceeded"}

\* _SAFE_SPEECH_UPSTREAM_ERRORS: the codes that come with their own status.
SafeUpstream(code) ==
    code \in {"role_resolution_required", "payload_too_large", "unsupported_media",
              "invalid_request", "invalid_audio", "no_speech", "quota_exceeded",
              "provider_failure", "service_unavailable", "deadline_exceeded"}

\* _sanitized_upstream_error and _upstream_error_fallback.
ClientCode(code) ==
    IF SafeUpstream(code) THEN code
    ELSE IF Status(code) \in {401, 403} \/ Status(code) >= 500
    THEN "provider_failure" ELSE "service_unavailable"

\* _parse_multipart, for a file that fits the reserve of BodyLimitMiddleware: a
\* longer one is payload_too_large before its type is looked at.  "ok" is no fault.
ApiFault(file, maxUpload, mediaTypes) ==
    IF file.type \notin mediaTypes THEN "unsupported_media"
    ELSE IF file.size > maxUpload THEN "payload_too_large"
    ELSE IF file.size = 0 THEN "invalid_audio" ELSE "ok"

\* _map_analysis_api_status, and the message of its code in the chat; what is
\* no HTTP answer is told like a missing service.
Told(status) ==
    CASE status = 413 -> "payload_too_large"
      [] status = 415 -> "unsupported_media"
      [] status = 422 -> "invalid_audio"
      [] status = 429 -> "quota_exceeded"
      [] status = 502 -> "agent_failure"
      [] status = 504 -> "deadline_exceeded"
      [] OTHER        -> "service_unavailable"

\* Faults of the recording itself, which asking again does not cure.
InputFaults == {"payload_too_large", "unsupported_media", "invalid_audio", "no_speech"}
Retryable(code) == Status(code) \in {429, 502, 503, 504}
=============================================================================
