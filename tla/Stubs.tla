-------------------------------- MODULE Stubs --------------------------------
(***************************************************************************)
(* What the stubs of the fake Node environment and of the fake shell tell  *)
(* the tracer (internal/sandbox/builtins.go, globals.go, eval.go,          *)
(* process.go, shell.go, evasion.go): one operator per stub, the call of   *)
(* Tracer.tla that it makes. quiet is Runtime.exploreQuiet: set during the *)
(* fuzz sweep, but also around every timer, whether muted or not.          *)
(***************************************************************************)
EXTENDS Tracer

Told(events, adds) == [events |-> events, adds |-> adds, decoded |-> {}, watched |-> {}, tainted |-> {}]
Event(cat, op, args) == [cat |-> cat, op |-> op, args |-> args, note |-> <<>>]
Noted(cat, op, args, note) == [cat |-> cat, op |-> op, args |-> args, note |-> <<note>>]
Silence == Told(<<>>, {})
Unless(quiet, told) == IF quiet THEN Silence ELSE told

(* net: http, fetch, sockets, dns.                                         *)
Request(url) == Told(<<Event("net", "https.request", <<url>>)>>, {})
RequestOver(socket) == Told(<<Event("net", "http.request", <<>>), Event("fs", "unix-socket", <<socket>>)>>, {<<"Paths", socket>>})
SetHeader(h) == Told(<<Event("net", "request.setHeader", <<h>>)>>, {<<"Headers", h>>})
Send(op, body) == Told(<<Event("net", op, <<body>>)>>, {<<"Payloads", body>>})
Fetch(url) == Told(<<Event("net", "fetch", <<url>>)>>, {})
Post(url, body) == Told(<<Event("net", "fetch", <<url>>), Event("net", "fetch.body", <<body>>)>>, {<<"Payloads", body>>})
Beacon(url, body) == Told(<<Event("net", "navigator.sendBeacon", <<url>>)>>, {<<"Payloads", body>>})
XHR(url, body) ==
    Told(<<Event("net", "XHR.open", <<url>>), Event("net", "XHR.send", <<body>>)>>, {})
Connect(host) == Told(<<Event("net", "net.connect", <<host>>)>>, {})
Listen == Told(<<Event("net", "net.createServer", <<>>), Event("net", "server.listen", <<>>)>>, {})
Lookup(host) == Told(<<Event("net", "dns.lookup", <<host>>)>>, {<<"Domains", host>>})
SetServers(host) == Told(<<Event("net", "dns.setServers", <<host>>)>>, {})

(* Only Send, Post and Beacon file what they carry as a payload: the body  *)
(* of XHR, like that of a WebSocket, is an argument of its event.          *)

(* Processes: a foreign binary is a process, an interpreter of the         *)
(* package's own scripts is not.                                           *)
Spawn(op, command) == Told(<<Event("proc", op, <<command>>)>>, {<<"Commands", command>>})
ShellInterpreter(command) == Told(<<Event("module", "run-node", <<command>>)>>, {})

(* Files and the environment. A read of a credential file has the content  *)
(* that was served watched, and a read that a rule names has it tainted.   *)
EnvRead(name) == Told(<<Event("env", "process.env", <<name>>)>>, {<<"EnvAccessed", name>>})
ReadSources(path, content) ==
    [watched |-> IF Has(path, "sensitive") \/ Has(path, "infostealer") THEN {content} ELSE {},
     tainted |-> {<<r.name, content>> : r \in {x \in Rules : path \in x.sources}}]
Read(path, content) ==
    LET from == ReadSources(path, content)
    IN  [Told(<<Event("fs", "readFileSync", <<path>>)>>, {<<"Paths", path>>})
            EXCEPT !.watched = from.watched, !.tainted = from.tainted]
ReadMissing(path) == Told(<<Event("fs", "readFileSync", <<path>>)>>, {<<"Paths", path>>})
Executable(path, content) == Has(path, "script") \/ Has(path, "git hook") \/ Has(content, "shebang")
Write(path, content) ==
    Told(<<Event("fs", "writeFileSync", <<path, content>>)>>,
         {<<"FilesWritten", path>>} \cup IF Executable(path, content) THEN {<<"Commands", content>>} ELSE {})
ShellWrite(path, content) ==
    Told(<<Event("fs", "shell-write", <<path>>), Noted("fs", "shell-write-data", <<path>>, content)>>,
         {<<"FilesWritten", path>>} \cup IF Executable(path, content) THEN {<<"Commands", content>>} ELSE {})
Delete(path, quiet) == Unless(quiet, Told(<<Event("fs", "unlinkSync", <<path>>)>>, {<<"FilesDeleted", path>>}))

(* Dynamic code and decoding.                                              *)
Decoded(told, blob) == [told EXCEPT !.decoded = {blob}]
BufferFrom(blob) == Decoded(Told(<<Event("eval", "Buffer.from(base64)", <<blob>>)>>, {}), blob)
BufferConcat(blob) == Decoded(Silence, blob)
Atob(blob, quiet) ==
    LET event == Unless(quiet, Told(<<Event("eval", "atob", <<blob>>)>>, {}))
    IN  IF quiet /\ ~Has(blob, "high signal") THEN event ELSE Decoded(event, blob)
FromCharCode(blob, quiet) == Unless(quiet, Decoded(Told(<<Event("eval", "deobfuscate", <<blob>>)>>, {}), blob))
Eval(body, quiet) ==
    LET deciphered == IF Has(body, "deciphered") THEN <<Event("eval", "decrypt-then-eval", <<body>>)>> ELSE <<>>
        code == Told(deciphered \o <<Event("eval", "dynamic-code", <<body>>)>>, {})
    IN  CASE quiet /\ ~Has(body, "fetched") /\ ~Has(body, "high signal") -> Told(deciphered, {})
          [] ~quiet \/ Has(body, "fetched") \/ Has(body, "high signal") ->
                IF Has(body, "loader") THEN Decoded(code, body) ELSE code
ShellDecode(blob) == Decoded(Told(<<Event("eval", "base64-d(shell)", <<blob>>)>>, {}), blob)
Cipher(op) == Told(<<Event("crypto", "createCipheriv", <<>>)>>, {<<"CryptoOps", op>>})
Decipher(op, plain) ==
    Decoded(Told(<<Event("crypto", "createDecipheriv", <<>>), Event("eval", "decipher-output", <<plain>>)>>,
                 {<<"CryptoOps", op>>}), plain)

(* The host, the inspector and the static pass.                            *)
HostInfo == Told(<<Event("os", "os.platform", <<>>)>>, {})
Inspector == Told(<<Event("process", "inspector.open", <<>>)>>, {})
ObfuscatedLoader == Told(<<Event("eval", "obfuscated-loader", <<>>)>>, {})

(* What a sample may ask of the stubs, as a record of the stub and what it *)
(* is called with.                                                         *)
StubNames == {"request", "requestOver", "setHeader", "send", "fetch", "post", "beacon", "xhr", "connect", "listen",
    "lookup", "setServers", "spawn", "shellExec", "runNode", "env", "read", "readMissing", "write", "shellWrite",
    "delete", "bufferFrom", "bufferConcat", "atob", "fromCharCode", "eval", "shellDecode", "cipher", "decipher",
    "hostInfo", "inspector", "obfuscated"}
Perform(do, quiet) ==
    CASE do.stub = "request" -> Request(do.on)
      [] do.stub = "requestOver" -> RequestOver(do.on)
      [] do.stub = "setHeader" -> SetHeader(do.on)
      [] do.stub = "send" -> Send("request.write", do.on)
      [] do.stub = "fetch" -> Fetch(do.on)
      [] do.stub = "post" -> Post(do.on, do.with)
      [] do.stub = "beacon" -> Beacon(do.on, do.with)
      [] do.stub = "xhr" -> XHR(do.on, do.with)
      [] do.stub = "connect" -> Connect(do.on)
      [] do.stub = "listen" -> Listen
      [] do.stub = "lookup" -> Lookup(do.on)
      [] do.stub = "setServers" -> SetServers(do.on)
      [] do.stub = "spawn" -> Spawn("spawn", do.on)
      [] do.stub = "shellExec" -> Spawn("shell-exec", do.on)
      [] do.stub = "runNode" -> ShellInterpreter(do.on)
      [] do.stub = "env" -> EnvRead(do.on)
      [] do.stub = "read" -> Read(do.on, do.with)
      [] do.stub = "readMissing" -> ReadMissing(do.on)
      [] do.stub = "write" -> Write(do.on, do.with)
      [] do.stub = "shellWrite" -> ShellWrite(do.on, do.with)
      [] do.stub = "delete" -> Delete(do.on, quiet)
      [] do.stub = "bufferFrom" -> BufferFrom(do.on)
      [] do.stub = "bufferConcat" -> BufferConcat(do.on)
      [] do.stub = "atob" -> Atob(do.on, quiet)
      [] do.stub = "fromCharCode" -> FromCharCode(do.on, quiet)
      [] do.stub = "eval" -> Eval(do.on, quiet)
      [] do.stub = "shellDecode" -> ShellDecode(do.on)
      [] do.stub = "cipher" -> Cipher(do.on)
      [] do.stub = "decipher" -> Decipher(do.on, do.with)
      [] do.stub = "hostInfo" -> HostInfo
      [] do.stub = "inspector" -> Inspector
      [] do.stub = "obfuscated" -> ObfuscatedLoader
=============================================================================
