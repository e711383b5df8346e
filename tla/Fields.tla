------------------------------- MODULE Fields -------------------------------
(***************************************************************************)
(* The static field tables of the plugins (plugins/fields.rs): what GET    *)
(* /api/5/<plugin>/info announces and what the alert engine reads.  Of an  *)
(* entry, its name, its primary_key, rate and watched flags, its           *)
(* normalize_by divisor and its built-in ladder are kept (limits in        *)
(* tenths); texts, units and display flags are left out.                   *)
(***************************************************************************)
EXTENDS Naturals

Plugins == {"cpu", "diskio", "fs", "load", "mem", "memswap", "network",
            "system", "uptime"}

\* FieldInfo::new: a table of fields without any flag.
Plain(names) == [names |-> names, keys |-> {}, rates |-> {}, watched |-> {},
                 divisors |-> <<>>, ladders |-> <<>>]

MEM_FIELDS ==
    [Plain({"total", "available", "percent", "used", "free", "active",
            "inactive", "buffers", "cached", "shared", "slab"})
     EXCEPT !.watched = {"percent"},
            !.ladders = [percent |-> <<500, 700, 900>>]]

CPU_FIELDS ==
    [Plain({"total", "system", "user", "iowait", "idle", "irq", "nice",
            "steal", "guest", "ctx_switches", "interrupts",
            "soft_interrupts", "syscalls", "cpucore"})
     EXCEPT !.rates = {"ctx_switches", "interrupts", "soft_interrupts",
                       "syscalls"},
            !.watched = {"total", "system", "user", "iowait", "steal",
                         "ctx_switches"},
            !.divisors = [ctx_switches |-> "cpucore"],
            !.ladders = [f \in {"total", "system", "user", "iowait", "steal",
                               "ctx_switches"} |->
                            CASE f = "steal" -> <<50, 150, 300>>
                              [] f = "ctx_switches" -> <<250000, 375000, 500000>>
                              [] OTHER -> <<500, 700, 900>>]]

LOAD_FIELDS ==
    [Plain({"min1", "min5", "min15", "cpucore"})
     EXCEPT !.watched = {"min5", "min15"},
            !.divisors = [f \in {"min5", "min15"} |-> "cpucore"],
            !.ladders = [f \in {"min5", "min15"} |-> <<7, 10, 50>>]]

SYSTEM_FIELDS == Plain({"os_name", "hostname", "platform", "linux_distro",
                        "os_version", "hr_name"})

UPTIME_FIELDS == Plain({"seconds"})

MEMSWAP_FIELDS ==
    [Plain({"total", "used", "free", "percent", "sin", "sout"})
     EXCEPT !.rates = {"sin", "sout"},
            !.watched = {"percent", "sin", "sout"},
            !.ladders = [percent |-> <<600, 800, 950>>]]

FS_FIELDS ==
    [Plain({"mnt_point", "device_name", "fs_type", "size", "used", "free",
            "percent", "options", "alias"})
     EXCEPT !.keys = {"mnt_point"},
            !.watched = {"percent"},
            !.ladders = [percent |-> <<700, 800, 900>>]]

DISKIO_FIELDS ==
    [Plain({"disk_name", "read_count", "write_count", "read_time",
            "write_time", "read_latency", "write_latency",
            "read_bytes_cumul", "write_bytes_cumul", "read_count_cumul",
            "write_count_cumul", "read_bytes", "write_bytes", "alias",
            "hidden"})
     EXCEPT !.keys = {"disk_name"},
            !.rates = {"read_count", "write_count", "read_time", "write_time",
                       "read_bytes", "write_bytes"},
            !.watched = {"read_bytes", "write_bytes"}]

NETWORK_FIELDS ==
    [Plain({"interface_name", "bytes_recv", "bytes_sent", "bytes_recv_cumul",
            "bytes_sent_cumul", "errors_in", "errors_out", "dropped_in",
            "dropped_out", "bytes_all", "alias", "is_up", "speed",
            "bytes_speed_rate_per_sec", "hidden"})
     EXCEPT !.keys = {"interface_name"},
            !.rates = {"bytes_recv", "bytes_sent", "bytes_all", "errors_in",
                       "errors_out", "dropped_in", "dropped_out"},
            !.watched = {"bytes_recv", "bytes_sent"},
            !.divisors = [f \in {"bytes_recv", "bytes_sent"} |->
                             "bytes_speed_rate_per_sec"],
            !.ladders = [f \in {"bytes_recv", "bytes_sent"} |-> <<7, 8, 9>>]]

\* fields()
FieldsOf(p) == CASE p = "mem" -> MEM_FIELDS [] p = "cpu" -> CPU_FIELDS
                 [] p = "load" -> LOAD_FIELDS [] p = "network" -> NETWORK_FIELDS
                 [] p = "system" -> SYSTEM_FIELDS
                 [] p = "uptime" -> UPTIME_FIELDS
                 [] p = "memswap" -> MEMSWAP_FIELDS [] p = "fs" -> FS_FIELDS
                 [] p = "diskio" -> DISKIO_FIELDS

\* alert_fields()
AlertFields(p) == FieldsOf(p).watched

\* builtin_thresholds(): the ladders alerts.use_builtin_defaults turns on.
BuiltinThresholds(p) == FieldsOf(p).ladders

\* What /info says of the fields of a plugin (field_schema).
Info(p) == LET table == FieldsOf(p) IN
    [f \in table.names |->
        [primary_key |-> f \in table.keys,
         rate |-> f \in table.rates,
         watched |-> f \in table.watched]]
=============================================================================
