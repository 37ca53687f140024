---------------------------- MODULE LocalServer -----------------------------
(***************************************************************************)
(* backend/local_server.py as the HTTP backend sees it: the endpoints      *)
(* /api/info and /api/data.  The server has one thread, so a request is    *)
(* answered in one step, on the files as they are then.  files is a        *)
(* function on the regular files that exist; the directories do not change.*)
(***************************************************************************)
EXTENDS FileOps

CONSTANT Dirs

\* sized: the answer has a Content-Length; length: its value.
Reply(code, body, sized) ==
    [code |-> code, body |-> body, sized |-> sized, length |-> Len(body)]

\* A JSON answer has no Content-Length: it ends where the connection does.
NotFound == Reply(404, <<"error">>, FALSE)

\* The fields of a file's description that clients look at, in their order.
get_file_info(files, p) ==
    <<"name", "size", IF p \in Dirs THEN 0 ELSE Len(files[p]), "is_directory", p \in Dirs>>

handle_info_request(files, p) ==
    IF p \in Dirs \cup DOMAIN files THEN Reply(200, get_file_info(files, p), FALSE)
    ELSE NotFound

\* A range that starts behind the end of the file is announced with a
\* negative length.
handle_data_request(files, p, off, len) ==
    IF p \notin DOMAIN files THEN NotFound
    ELSE IF len = 0 THEN Reply(200, files[p], TRUE)
    ELSE [Reply(206, pread(files[p], len, off), TRUE) EXCEPT
            !.length = IF off > Len(files[p]) THEN Len(files[p]) - off ELSE @]

\* A PUT is stored as the whole file, whatever its Content-Range says.
handle_data_upload(files, p, data) ==
    IF p \in Dirs THEN [code |-> 500, files |-> files]
    ELSE [code |-> 201, files |-> Stored(files, p, data)]
=============================================================================
