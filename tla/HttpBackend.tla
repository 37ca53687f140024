---------------------------- MODULE HttpBackend -----------------------------
(***************************************************************************)
(* backend/http_backend.cc: HttpBackend::download and upload, one transfer *)
(* of libcurl per calling thread.  A transfer is a request on its way      *)
(* ("sent"), then an answer whose body still arrives ("body"), then the    *)
(* outcome of curl_easy_perform ("done").  No timeout and no retry is set: *)
(* a transfer ends by an answer or by the loss of the connection.          *)
(***************************************************************************)
EXTENDS LocalServer

CONSTANTS
    Threads,
    ChunkSize,      \* cells that libcurl hands over at once
    MaxFaults       \* bound: lost connections

ASSUME BackendAssumption == MaxFaults \in Nat /\ ChunkSize \in Nat \ {0}

VARIABLES
    files,          \* the remote files
    net,            \* each thread's transfer
    faults          \* history: connections lost so far

NoTransfer == [st |-> "none"]
Failure == -1

\* The endpoint of a base URL that is none of the server's.
Nowhere == "nowhere"

-----------------------------------------------------------------------------
(* What the callers of the backend use.                                    *)

Request(t, r) == net[t] = NoTransfer /\ net' = [net EXCEPT ![t] = r]

\* download(path, buffer, size, offset): no Range header if size is 0.
download(t, endpoint, p, size, offset) ==
    Request(t, [st |-> "sent", verb |-> "GET", endpoint |-> endpoint, path |-> p,
                len |-> size, off |-> offset, data |-> <<>>])

upload(t, endpoint, p, data, offset) ==
    Request(t, [st |-> "sent", verb |-> "PUT", endpoint |-> endpoint, path |-> p,
                len |-> Len(data), off |-> offset, data |-> data])

\* Mutant: a transfer that failed is waited for.
FinishedWell(t) == net[t].st = "done" /\ net[t].cres

Finished(t) == net[t].st = "done"

ok_2xx(code) == code \div 100 = 2

\* Mutant: only the status is looked at, not the result of the transfer.
okStatusOnly(t) == ok_2xx(net[t].code)

Succeeded(t) == net[t].cres /\ ok_2xx(net[t].code)

\* Mutant: an upload returns what it was given to send.
UploadedSent(t) == net[t].len

\* What upload and download return.
Uploaded(t) == IF Succeeded(t) THEN net[t].len ELSE Failure
Downloaded(t) == IF Succeeded(t) THEN Len(net[t].buf) ELSE Failure

-----------------------------------------------------------------------------
(* The transfer: the server, libcurl and the callbacks.                    *)

Done(r, code, cres, buf) ==
    [st |-> "done", code |-> code, cres |-> cres, buf |-> buf, len |-> r.len]

\* The body goes to the callback; with FAILONERROR an error status ends the
\* transfer before it does, and so does a length that is no number.
Answered(r, a) ==
    IF a.code >= 400 \/ a.length < 0 THEN Done(r, a.code, FALSE, <<>>)
    ELSE [st |-> "body", code |-> a.code, rest |-> a.body, sized |-> a.sized,
          buf |-> <<>>, len |-> r.len]

ServeGet(t) ==
    /\ net[t].st = "sent" /\ net[t].verb = "GET"
    /\ LET r == net[t]
           a == CASE r.endpoint = "info" -> handle_info_request(files, r.path)
                  [] r.endpoint = "data" -> handle_data_request(files, r.path, r.off, r.len)
                  [] OTHER -> NotFound
       IN  net' = [net EXCEPT ![t] = Answered(r, a)]
    /\ UNCHANGED <<files, faults>>

\* read_upload_cb hands out the buffer until all of it is sent.
ServePut(t) ==
    /\ net[t].st = "sent" /\ net[t].verb = "PUT"
    /\ LET r == net[t]
           a == IF r.endpoint = "data" THEN handle_data_upload(files, r.path, r.data)
                ELSE [code |-> 404, files |-> files]
       IN  /\ files' = a.files
           /\ net' = [net EXCEPT ![t] = Done(r, a.code, a.code < 400, <<>>)]
    /\ UNCHANGED faults

write_slice_cb(buf, chunk, cap) == buf \o SubSeq(chunk, 1, Clip(cap - Len(buf), Len(chunk)))

\* libcurl hands over the next piece of the body, the first n cells of it.
Received(r, n) == write_slice_cb(r.buf, SubSeq(r.rest, 1, n), r.len)

Receive(t) ==
    /\ net[t].st = "body" /\ Len(net[t].rest) > ChunkSize
    /\ net' = [net EXCEPT ![t].buf = Received(net[t], ChunkSize),
                          ![t].rest = SubSeq(@, ChunkSize + 1, Len(@))]
    /\ UNCHANGED <<files, faults>>

Complete(t) ==
    /\ net[t].st = "body" /\ Len(net[t].rest) <= ChunkSize
    /\ net' = [net EXCEPT ![t] = Done(@, @.code, TRUE, Received(@, Len(@.rest)))]
    /\ UNCHANGED <<files, faults>>

Fault == faults < MaxFaults /\ faults' = faults + 1

\* curl_easy_init fails, or the request never reaches the server.
LoseRequest(t) ==
    /\ net[t].st = "sent" /\ Fault
    /\ net' = [net EXCEPT ![t] = Done(@, 0, FALSE, <<>>)]
    /\ UNCHANGED files

\* The server reads what arrived of an upload up to the end of the stream,
\* and stores it; or it stores everything and its answer is lost.
LoseUpload(t) ==
    /\ net[t].st = "sent" /\ net[t].verb = "PUT" /\ net[t].endpoint = "data" /\ Fault
    /\ \E n \in 0..Len(net[t].data) :
          files' = handle_data_upload(files, net[t].path, SubSeq(net[t].data, 1, n)).files
    /\ net' = [net EXCEPT ![t] = Done(@, 0, FALSE, <<>>)]

\* The connection ends before the body does.  libcurl notices if it knows the
\* length, or if the connection was reset.
LoseBody(t) ==
    /\ net[t].st = "body" /\ net[t].rest # <<>> /\ Fault
    /\ \E cres \in {FALSE, ~net[t].sized}, n \in 0..Clip(Len(net[t].rest) - 1, ChunkSize) :
          net' = [net EXCEPT ![t] = Done(@, @.code, cres, Received(@, n))]
    /\ UNCHANGED files

Transfer(t) == ServeGet(t) \/ ServePut(t) \/ Receive(t) \/ Complete(t)
Lose(t) == LoseRequest(t) \/ LoseUpload(t) \/ LoseBody(t)
=============================================================================
