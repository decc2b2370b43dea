-------------------------- MODULE MCNetFileServer --------------------------
(* Small instances of NetFileServer.                                        *)
EXTENDS NetFileServerProps, TLC

Request(func) == [func |-> func]
OnFd(func, fd) == [func |-> func, fd |-> fd]
OpenOf(path, mode, flags) ==
  [func |-> "NET_OPEN", filePath |-> path, fMode |-> mode, fileFlags |-> flags]

\* An open of a file, which excludes a second one, an open without a name, and
\* transfers and closes of the first slot and of a descriptor that is none.
MCRequests ==
  {OpenOf("f", "EXCLUSIVE", "O_RDWR"), OpenOf("", "TRANSACTION", "O_RDONLY"),
   OnFd("NET_READ", 0), OnFd("NET_WRITE", NetFD(0)), OnFd("NET_CLOSE", NetFD(0))}

\* For the questions of which the answer does not depend on the request.
FewRequests == {OpenOf("f", "UNRESTRICTED", "O_RDONLY"), Request("NET_SERVERINIT")}
============================================================================
