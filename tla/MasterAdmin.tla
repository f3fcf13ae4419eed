----------------------------- MODULE MasterAdmin -----------------------------
(***************************************************************************)
(* What the control plane makes of the master's answers: the segments an   *)
(* instance was registered with (kvcm/instances.py), the check of their    *)
(* names (admin_main.py), the capacity of a segment (http_admin.py), the   *)
(* replicas of a batch of keys (admin_main.py) and the sizes of a key's    *)
(* replicas (client.py, backend.py).                                       *)
(*                                                                         *)
(* JSON is abstracted to what the parsers tell apart: a field is absent,   *)
(* of the wrong type ("junk"), or what it should be.                       *)
(***************************************************************************)
EXTENDS KeyPlan

CONSTANTS LineMax,     \* _MAX_BATCH_QUERY_REQUEST_BYTES
          LineBase,    \* the request line without keys
          QuotedLen(_) \* the length of a key, percent-encoded

ASSUME LineAssumption == LineMax \in Nat /\ LineBase \in Nat

NoSize == -1

(***************************************************************************)
(* --instance-segs: parse_instance_segs, InstanceDirectory.register,       *)
(* directory_from_specs.  A spec is [inst, segs]; "" is an empty name, or  *)
(* a spec without "=".                                                     *)
(***************************************************************************)
ParseSpec(spec) ==
  LET segs == SelectSeq(spec.segs, LAMBDA s : s # "")
  IN IF spec.inst = "" \/ segs = <<>> THEN Raise("spec") ELSE Ok([spec EXCEPT !.segs = segs])

Register(dir, spec) ==
  LET one == ParseSpec(spec)
  IN CASE ~dir.ok -> dir
       [] ~one.ok -> one
       [] one.val.inst \in DOMAIN dir.val -> Raise("twice")
       [] OTHER -> Ok((one.val.inst :> one.val.segs) @@ dir.val)

DirectoryFromSpecs(specs) ==
  IF specs = <<>> THEN Raise("no specs") ELSE FoldLeft(Register, Ok(<<>>), specs)

Locate(dir, inst) == IF inst \in DOMAIN dir THEN Ok(dir[inst]) ELSE Raise("unregistered")

(***************************************************************************)
(* The start-up gate: a configured name must be the segment_name and the   *)
(* te_endpoint of one segment, because a copy is addressed by the name and *)
(* verified by the endpoint.  details is a list of [name, endpoint] or     *)
(* junk rows; of two rows of one name the later one counts.                *)
(***************************************************************************)
ParseSegmentsDetail(details) ==
  IF \E i \in DOMAIN details : details[i].name = "" \/ details[i].endpoint = ""
    THEN Raise("detail")
    ELSE Ok(FoldLeft(LAMBDA f, d : (d.name :> d.endpoint) @@ f, <<>>, details))

EndpointMatches_NameOnly(seg, endpoint) == TRUE

EndpointMatches(seg, endpoint) == endpoint = seg

ValidateConfiguredSegs(configured, details) ==
  LET byName == ParseSegmentsDetail(details)
  IN CASE ~byName.ok -> byName
       [] \E s \in Range(configured) : s \notin DOMAIN byName.val -> Raise("unknown segment")
       [] \E s \in Range(configured) : ~EndpointMatches(s, byName.val[s]) -> Raise("endpoint")
       [] OTHER -> Ok(TRUE)

(***************************************************************************)
(* query_segment: the answer is [status, body, used, cap]; status 0 when   *)
(* the port could not be reached.  A segment that does not exist is the    *)
(* body "not found" whatever the status, or a 404, whoever says it; any    *)
(* other 5xx is temporary.                                                 *)
(***************************************************************************)
QuerySegment(a) ==
  CASE a.status = 0 -> Raise("temporary")
    [] a.body = "not found" -> Raise("gone")
    [] a.status = 404 -> Raise("404")
    [] a.status >= 500 -> Raise("temporary")
    [] a.body # "numbers" -> Raise("refused")
    [] OTHER -> Ok([used |-> a.used, cap |-> a.cap])

(***************************************************************************)
(* batch_query_keys: the keys of one call are cut into request lines of at *)
(* most LineMax bytes; a key too long for a line goes alone.  (No keys at  *)
(* all is an error; a plan that reaches this has some.)                    *)
(***************************************************************************)
LineLen(batch) ==
  FoldLeft(LAMBDA n, k : n + QuotedLen(k), LineBase + Len(batch) - 1, batch)

AddToBatches_Drops(bs, k) ==
  LET last == bs[Len(bs)]
  IN IF last # <<>> /\ LineLen(Append(last, k)) > LineMax
       THEN Append(bs, <<>>)
       ELSE [bs EXCEPT ![Len(bs)] = Append(@, k)]

AddToBatches(bs, k) ==
  LET last == bs[Len(bs)]
  IN IF last # <<>> /\ LineLen(Append(last, k)) > LineMax
       THEN Append(bs, <<k>>)
       ELSE [bs EXCEPT ![Len(bs)] = Append(@, k)]

Batches(keys) == FoldLeft(AddToBatches, <<<<>>>>, keys)

(***************************************************************************)
(* parse_batch_query_keys.  A reply is [form, rows]; a row is              *)
(* [form, ok, values, nof, disk, local], each list a [form, eps] whose     *)
(* endpoint "" is a descriptor without one.  A row is junk when it is no   *)
(* object, or its error no string.                                         *)
(***************************************************************************)
MemoryViews(list) ==
  CASE list.form = "absent" -> Ok(<<>>)
    [] list.form = "junk" \/ "" \in Range(list.eps) -> Raise("replica")
    [] OTHER -> Ok(list.eps)

(* _replica_count, _local_disk_endpoints: an endpoint may be missing.      *)
DiskViews(list) ==
  CASE list.form = "absent" -> Ok(<<>>)
    [] list.form = "junk" -> Raise("replica")
    [] OTHER -> Ok(list.eps)

(* The replicas READY counts are those of values; nof is kept apart.       *)
InMemory(memory, nof) == memory

ParseRow(row) ==
  LET lists == <<MemoryViews(row.values), MemoryViews(row.nof), DiskViews(row.disk), DiskViews(row.local)>>
  IN CASE row.form = "junk" -> Raise("row")
       [] ~row.ok -> Ok([ok |-> FALSE, memory |-> <<>>, disks |-> 0])
       [] \E i \in 1..4 : ~lists[i].ok -> Raise("replica")
       [] OTHER -> Ok([ok |-> TRUE, memory |-> InMemory(lists[1].val, lists[2].val),
                       disks |-> Len(lists[3].val) + Len(lists[4].val)])

ParseBatchQueryKeys(reply) ==
  CASE reply.form = "junk" -> Raise("reply")
    [] \E k \in DOMAIN reply.rows : ~ParseRow(reply.rows[k]).ok -> Raise("reply")
    [] OTHER -> Ok([k \in DOMAIN reply.rows |-> ParseRow(reply.rows[k]).val])

(* _require_admin_rows: every key asked for is there, and answered.        *)
RequireRows(keys, parsed) ==
  /\ Range(keys) \subseteq DOMAIN parsed
  /\ \A k \in Range(keys) : parsed[k].ok

(***************************************************************************)
(* batch_memory_replica_sizes and _replica_row: the size of a replica is   *)
(* the attribute size, else size_, if it is a number of bytes.             *)
(***************************************************************************)
BufferSize(buf) ==
  CASE buf.size >= 0 -> buf.size
    [] buf.size_ >= 0 -> buf.size_
    [] OTHER -> NoSize
=============================================================================
