----------------------------- MODULE MCSysfile ------------------------------
(* A small file system for TLC.  Each behaviour runs one of the workloads. *)
EXTENDS Sysfile

CONSTANTS p1, p2

c1(name) == [call |-> name]
on(name, fd) == [call |-> name, fd |-> fd]
at(name, path) == [call |-> name, path |-> path]
opens(name, path, w) == [call |-> name, path |-> path, writable |-> w, trunc |-> w]

mknod(path, type) == [call |-> "mknod", path |-> path, type |-> type]
links(old, path) == [call |-> "link", old |-> old, path |-> path]

a == <<"/", "a">>
b == <<"/", "b">>
ab == <<"/", "a", "b">>

\* A directory is filled while another process empties and removes it.
Removal ==
  p1 :> {c1("fork"), at("mkdir", a), mknod(ab, "device")}
  @@ p2 :> {at("unlink", ab), at("unlink", a)}

\* A directory is entered while another process removes it.
Entering ==
  p1 :> {c1("fork"), at("mkdir", a), at("chdir", a)} @@ p2 :> {at("unlink", a)}

\* One process removes the directories above it and goes up.
Above ==
  p1 :> {at("mkdir", a), at("mkdir", ab), at("chdir", ab), at("unlink", ab), at("unlink", a),
         at("unlink", <<"/", "a", ".">>), at("chdir", <<"..">>), opens("create", <<"b">>, TRUE)}
  @@ p2 :> {}

\* Links are made while another process removes them.
Linking ==
  p1 :> {c1("fork"), mknod(a, "device"), links(a, b)} @@ p2 :> {at("unlink", a), at("unlink", b)}

\* A file is executed while another process removes it.
Executing ==
  p1 :> {c1("fork"), mknod(a, "device"), at("exec", a)} @@ p2 :> {at("unlink", a)}

\* Descriptors run out and are shared.
Descriptors ==
  p1 :> {c1("fork"), c1("pipe"), opens("create", a, TRUE), opens("open", a, FALSE),
         on("dup", 0), on("close", 0), on("close", 1)}
  @@ p2 :> {on("write", 0), on("read", 1), c1("exit")}

\* Devices, and files that fill the disk.
Full ==
  p1 :> {mknod(a, "device"), mknod(b, "bad device"), at("mkdir", b), opens("open", a, TRUE),
         opens("create", b, TRUE), on("write", 0), on("fstat", 0), on("close", 0),
         at("unlink", a), at("unlink", b)}
  @@ p2 :> {}

\* Calls that fail: a name is missing, there already, or not of a directory.
Failing ==
  p1 :> {mknod(a, "device"), links(a, a), links(a, <<"/", "b", "a">>), links(b, a),
         links(<<"/">>, b), at("chdir", a), at("chdir", b), at("exec", b), at("unlink", <<"/">>),
         at("unlink", ab), at("unlink", b), at("mkdir", ab), opens("open", <<"/">>, TRUE),
         opens("create", a, TRUE), at("mkdir", a), at("unlink", a), on("close", 0)}
  @@ p2 :> {}

\* A directory that cannot grow.
NoBlocks ==
  p1 :> {at("mkdir", a), opens("create", ab, TRUE), on("write", 0),
         links(ab, <<"/", "a", "a">>), opens("open", b, FALSE), on("close", 0)}
  @@ p2 :> {}

MCWorkloads ==
  {Removal, Entering, Above, Linking, Executing, Descriptors, Full, Failing, NoBlocks}
=============================================================================
