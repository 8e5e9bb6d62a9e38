----------------------------- MODULE Streaming -----------------------------
(***************************************************************************)
(* 07_io_files_networking/11_streaming_download_upload/main.py: main      *)
(* starts an HTTPServer on a daemon thread and, in one try, downloads     *)
(* /download twice in chunks (read(8192), then read(4096) with progress)  *)
(* and POSTs a 516-byte body; the finally calls server.shutdown().        *)
(*                                                                         *)
(* The server is single-threaded (HTTPServer): serve_forever selects,     *)
(* checks the shutdown request, then runs one handler to its end. do_GET  *)
(* sends its headers and writes PAYLOAD, which reaches the client's       *)
(* socket in segments; HTTP/1.0 closes the connection after the handler.  *)
(* A read(n) returns what has arrived, 1..n bytes, never more than the    *)
(* Content-Length left, and b"" once it is consumed. Sizes are in units;  *)
(* bytes themselves, file writes and the progress text are left out. Every *)
(* socket op of urlopen(timeout=10) may raise instead of waiting, which   *)
(* ends the try and runs the finally.                                      *)
(***************************************************************************)
EXTENDS Naturals, FiniteSetsExt

CONSTANTS
    PayloadLen,  \* len(PAYLOAD)
    Chunk1,      \* resp.read(8192)
    Chunk2,      \* resp2.read(4096)
    UploadLen    \* len(upload_data)

VARIABLES
    mpc,         \* main: "ex1", "hdr1", "read1", "ex2", "hdr2", "read2", "ex3", "post", "finally", "wait", "done"
    spc,         \* serve_forever: "start", "select", "write", "exited"
    stop,        \* the server's __shutdown_request
    pending,     \* the request sent and not yet taken by the server: "none", "get", "post"
    hdrs,        \* the headers of the current response have arrived
    written,     \* units of PAYLOAD the handler has written
    got,         \* units the current response has returned to read()
    total,       \* example 1's total
    downloaded,  \* example 2's downloaded
    clen,        \* example 2's content_length
    status,      \* resp3.status, 0 before it
    received,    \* len(body) read by do_POST, 0 before it
    raised       \* the try ended by an exception

vars == <<mpc, spc, stop, pending, hdrs, written, got, total, downloaded, clen,
          status, received, raised>>

Init ==
    /\ mpc = "ex1" /\ spc = "start" /\ stop = FALSE /\ pending = "none"
    /\ hdrs = FALSE /\ written = 0 /\ got = 0 /\ total = 0 /\ downloaded = 0
    /\ clen = 0 /\ status = 0 /\ received = 0 /\ raised = FALSE

(* --- the server thread ------------------------------------------------- *)

\* serve_forever: the loop is entered, or left at once when shutdown() has
\* already asked for it; at each select the request flag is tested first.
ServerExit ==
    /\ spc \in {"start", "select"} /\ stop
    /\ spc' = "exited"
    /\ UNCHANGED <<mpc, stop, pending, hdrs, written, got, total, downloaded,
                   clen, status, received, raised>>

ServeForever ==
    /\ spc = "start" /\ ~stop
    /\ spc' = "select"
    /\ UNCHANGED <<mpc, stop, pending, hdrs, written, got, total, downloaded,
                   clen, status, received, raised>>

\* do_GET of /download: send_response, Content-Length and end_headers.
HandleGet ==
    /\ spc = "select" /\ ~stop /\ pending = "get"
    /\ spc' = "write" /\ pending' = "none" /\ hdrs' = TRUE
    /\ UNCHANGED <<mpc, stop, written, got, total, downloaded, clen, status,
                   received, raised>>

\* wfile.write(PAYLOAD), seen by the client as segments of k units; the
\* handler returns with the last one.
WriteBody(k) ==
    /\ spc = "write"
    /\ written' = written + k
    /\ spc' = IF written' = PayloadLen THEN "select" ELSE "write"
    /\ UNCHANGED <<mpc, stop, pending, hdrs, got, total, downloaded, clen,
                   status, received, raised>>

\* do_POST: rfile.read(Content-Length) and the 200 with "received N bytes".
HandlePost ==
    /\ spc = "select" /\ ~stop /\ pending = "post"
    /\ pending' = "none" /\ hdrs' = TRUE /\ received' = UploadLen
    /\ UNCHANGED <<mpc, spc, stop, written, got, total, downloaded, clen,
                   status, raised>>

(* --- main ---------------------------------------------------------------- *)

\* urlopen of /download (examples 1 and 2) sends the GET.
OpenDownload ==
    /\ mpc \in {"ex1", "ex2"}
    /\ pending' = "get" /\ hdrs' = FALSE /\ written' = 0 /\ got' = 0
    /\ mpc' = IF mpc = "ex1" THEN "hdr1" ELSE "hdr2"
    /\ UNCHANGED <<spc, stop, total, downloaded, clen, status, received, raised>>

\* urlopen returns with the headers; example 2 reads Content-Length.
GotHeaders ==
    /\ mpc \in {"hdr1", "hdr2"} /\ hdrs
    /\ mpc' = IF mpc = "hdr1" THEN "read1" ELSE "read2"
    /\ clen' = IF mpc = "hdr2" THEN PayloadLen ELSE clen
    /\ UNCHANGED <<spc, stop, pending, hdrs, written, got, total, downloaded,
                   status, received, raised>>

\* The number of units read(n) returns: what has arrived, at most n and at
\* most the Content-Length left.
ChunkSizes(n) == 1..Min({n, written - got})

\* Mutant: the total counts the bytes asked for, not len(chunk).
CountChunkAsked(n, k) == n

CountChunk(n, k) == k

\* One pass of example 1's loop that gets a chunk: f.write(chunk) and
\* total += len(chunk).
ReadChunk1(k) ==
    /\ mpc = "read1" /\ k \in ChunkSizes(Chunk1)
    /\ got' = got + k /\ total' = total + CountChunk(Chunk1, k)
    /\ UNCHANGED <<mpc, spc, stop, pending, hdrs, written, downloaded, clen,
                   status, received, raised>>

\* One pass of example 2's loop that gets a chunk: f.write(chunk),
\* downloaded += len(chunk) and, content_length being > 0, the progress.
ReadChunk2(k) ==
    /\ mpc = "read2" /\ k \in ChunkSizes(Chunk2)
    /\ got' = got + k /\ downloaded' = downloaded + CountChunk(Chunk2, k)
    /\ UNCHANGED <<mpc, spc, stop, pending, hdrs, written, total, clen,
                   status, received, raised>>

\* read() returns b"" once Content-Length is consumed: the loop breaks and
\* main goes on to the next example.
ReadEnd ==
    /\ mpc \in {"read1", "read2"} /\ got = PayloadLen
    /\ mpc' = IF mpc = "read1" THEN "ex2" ELSE "ex3"
    /\ UNCHANGED <<spc, stop, pending, hdrs, written, got, total, downloaded,
                   clen, status, received, raised>>

\* Example 3: urlopen(Request(..., data=upload_data, method="POST")) sends
\* the headers and the whole body.
SendUpload ==
    /\ mpc = "ex3"
    /\ pending' = "post" /\ hdrs' = FALSE /\ mpc' = "post"
    /\ UNCHANGED <<spc, stop, written, got, total, downloaded, clen, status,
                   received, raised>>

GotUploadReply ==
    /\ mpc = "post" /\ hdrs
    /\ status' = 200 /\ mpc' = "finally"
    /\ UNCHANGED <<spc, stop, pending, hdrs, written, got, total, downloaded,
                   clen, received, raised>>

\* socket.timeout out of a urlopen or a read that is waiting: the try ends.
Timeout ==
    /\ \/ mpc \in {"hdr1", "hdr2", "post"} /\ ~hdrs
       \/ mpc \in {"read1", "read2"} /\ got = written /\ got < PayloadLen
    /\ raised' = TRUE /\ mpc' = "finally"
    /\ UNCHANGED <<spc, stop, pending, hdrs, written, got, total, downloaded,
                   clen, status, received>>

\* finally: server.shutdown() sets the request and waits for serve_forever
\* to leave its loop; then rmtree.
Shutdown ==
    /\ mpc = "finally"
    /\ stop' = TRUE /\ mpc' = "wait"
    /\ UNCHANGED <<spc, pending, hdrs, written, got, total, downloaded, clen,
                   status, received, raised>>

ShutdownReturns ==
    /\ mpc = "wait" /\ spc = "exited"
    /\ mpc' = "done"
    /\ UNCHANGED <<spc, stop, pending, hdrs, written, got, total, downloaded,
                   clen, status, received, raised>>

\* main has returned and the server thread has ended.
Terminated == mpc = "done" /\ UNCHANGED vars

Next ==
    \/ ServerExit \/ ServeForever \/ HandleGet \/ HandlePost
    \/ \E k \in 1..PayloadLen - written : WriteBody(k)
    \/ OpenDownload \/ GotHeaders
    \/ \E k \in 1..Chunk1 : ReadChunk1(k) \/ ReadChunk2(k)
    \/ ReadEnd \/ SendUpload \/ GotUploadReply \/ Timeout
    \/ Shutdown \/ ShutdownReturns \/ Terminated

\* Both threads are scheduled fairly; a timeout is what may happen, never
\* what must.
Fairness ==
    /\ WF_vars(ServerExit) /\ WF_vars(ServeForever) /\ WF_vars(HandleGet)
    /\ WF_vars(HandlePost) /\ WF_vars(\E k \in 1..PayloadLen - written : WriteBody(k))
    /\ WF_vars(OpenDownload) /\ WF_vars(GotHeaders)
    /\ WF_vars(\E k \in 1..Chunk1 : ReadChunk1(k)) /\ WF_vars(\E k \in 1..Chunk2 : ReadChunk2(k))
    /\ WF_vars(ReadEnd)
    /\ WF_vars(SendUpload) /\ WF_vars(GotUploadReply)
    /\ WF_vars(Shutdown) /\ WF_vars(ShutdownReturns)

Spec == Init /\ [][Next]_vars /\ Fairness

TypeOK ==
    /\ mpc \in {"ex1", "hdr1", "read1", "ex2", "hdr2", "read2", "ex3", "post",
                "finally", "wait", "done"}
    /\ spc \in {"start", "select", "write", "exited"}
    /\ pending \in {"none", "get", "post"}
    /\ got \in 0..written /\ written \in 0..PayloadLen
    /\ {stop, hdrs, raised} \subseteq BOOLEAN

\* main always returns with the server thread ended: the finally's
\* shutdown() is not left waiting on serve_forever whether the examples
\* finish or a socket op raises; and when none raised, the download loops
\* counted exactly Content-Length bytes, example 2 saw that length, and
\* the POST body arrived whole with a 200.
StreamsWholePayload ==
    <>(/\ mpc = "done" /\ spc = "exited"
       /\ ~raised => /\ total = PayloadLen /\ downloaded = PayloadLen
                     /\ clen = PayloadLen /\ status = 200
                     /\ received = UploadLen)
=============================================================================
